---- MODULE Spec2Model ----
(***************************************************************************)
(* Verification model of                                                   *)
(*   nemo/collections/vlm/llama/model/language.py: CrossAttentionTextModel,*)
(*     CrossAttentionTransformerBlock, CrossAttentionTransformerLayer,     *)
(*     DummyCrossAttentionTransformerLayer and apply_rope_scaling;         *)
(*   nemo/collections/common/prompts/gemma.py: GemmaPromptFormatter and    *)
(*     gemma1;                                                             *)
(*   nemo/collections/nlp/models/information_retrieval/                    *)
(*     megatron_gpt_embedding_model.py: _build_dataset,                    *)
(*     gather_and_maybe_write_predictions and loss_func;                   *)
(*   nemo/collections/slm/api.py: the three entry points.                  *)
(*                                                                         *)
(* Tensors are records [shape, data]: shape is the sequence of dimension   *)
(* sizes and data the row-major sequence of elements.  Hidden-state        *)
(* elements are integers in units of 1/1000; tanh is tabulated in the same *)
(* unit, and the modules of Megatron-core / Transformer-Engine that the    *)
(* code calls (attention, MLP, self-attention layer, embedding, output     *)
(* layer) are deterministic stand-ins that return whole numbers.           *)
(***************************************************************************)
EXTENDS Integers, Sequences, FiniteSets, TLC

VARIABLES config, pre_process, post_process, training, cuda_graphs,
          built, layers, xattn_layers, xattn_and_dummy_layers,
          fwd, rope, gemma, embed, slm

vars == <<config, pre_process, post_process, training, cuda_graphs,
          built, layers, xattn_layers, xattn_and_dummy_layers, fwd, rope,
          gemma, embed, slm>>

(* ------------------------------ bounds --------------------------------- *)

\* largest num_layers_per_pipeline_rank explored
MaxLayers == 2

\* largest sequence length s of a hidden-state tensor [s, b, h]
MaxSeq == 2

\* micro-batch sizes b explored
BatchSizes == {1, 2}

\* values a gate parameter takes after optimizer updates
GateVals == {0, 1}

(* ------------------------------ tensors -------------------------------- *)

\* Python None, in the shape of a tensor record so that it compares with one
NoneT == [shape |-> <<>>, data |-> <<>>]

IsNone(t) == t.data = <<>>

RECURSIVE Prod(_)
Prod(s) == IF s = <<>> THEN 1 ELSE Head(s) * Prod(Tail(s))

\* a tensor of the given shape whose k-th element is 1000 * (offset + k)
Iota(shape, offset) ==
    [shape |-> shape, data |-> [k \in 1..Prod(shape) |-> 1000 * (offset + k)]]

\* torch.full_like(t, v)
Fill(t, v) == [shape |-> t.shape, data |-> [k \in 1..Len(t.data) |-> v]]

\* t[i-1] of torch, the i-th slice along dimension 0 (i counts from 1)
Slice(t, i) ==
    LET rest == Tail(t.shape)
        m    == Prod(rest)
    IN  [shape |-> rest, data |-> [k \in 1..m |-> t.data[(i - 1) * m + k]]]

\* a + b, elementwise
AddT(a, b) == [shape |-> a.shape, data |-> [k \in 1..Len(a.data) |-> a.data[k] + b.data[k]]]

\* a - b, elementwise
SubT(a, b) == [shape |-> a.shape, data |-> [k \in 1..Len(a.data) |-> a.data[k] - b.data[k]]]

\* c * t for a scalar c
ScaleT(c, t) == [shape |-> t.shape, data |-> [k \in 1..Len(t.data) |-> c * t.data[k]]]

\* Transpose01 without the exchange of the dimensions
Transpose01_Identity(t) == t

\* t.transpose(0, 1).contiguous() of a tensor of rank >= 2
Transpose01(t) ==
    LET a == t.shape[1]
        b == t.shape[2]
        m == Prod(Tail(Tail(t.shape)))
    IN  [shape |-> <<b, a>> \o Tail(Tail(t.shape)),
         data  |-> [k \in 1..Len(t.data) |->
                      LET j == (k - 1) \div (a * m)
                          i == ((k - 1) % (a * m)) \div m
                          r == (k - 1) % m
                      IN  t.data[i * (b * m) + j * m + r + 1]]]

\* 1000 * tanh(g), rounded, for the gate values explored
Tanh(g) ==
    CASE g = 0 -> 0
      [] g = 1 -> 762
      [] g = 2 -> 964
      [] g = 3 -> 995
      [] OTHER -> 1000

(* ------------- CrossAttentionTransformerLayer and its dummy ------------ *)

\* CrossAttentionTransformerLayer.__init__: both gates are torch.zeros(1)
NewXattnLayer(layer_number) ==
    [layer_number |-> layer_number, gate_attn |-> 0, gate_ffn |-> 0]

\* LlamaCrossAttention.forward: returns (output, bias).  The core attention
\* output is multiplied by full_text_row_masked_out_mask (0 for a fully masked
\* row) before linear_proj; the keys and values come from xattn_cache only.
CrossAttention(hidden_states, mask, xattn_cache, bias_on) ==
    <<Fill(hidden_states, xattn_cache * mask),
      IF bias_on THEN Fill(hidden_states, 1) ELSE NoneT>>

\* self.mlp(pre_mlp_layernorm_output): returns (output, bias)
Mlp(hidden_states, bias_on) ==
    <<[shape |-> hidden_states.shape,
       data  |-> [k \in 1..Len(hidden_states.data) |-> (hidden_states.data[k] % 3) + 1]],
      IF bias_on THEN Fill(hidden_states, 2) ELSE NoneT>>

\* GateTuple with the bias left ungated
GateTuple_BiasUngated(gate, pair) ==
    <<IF IsNone(pair[1]) THEN NoneT ELSE ScaleT(gate, pair[1]), pair[2]>>

\* tuple(gate * output if output is not None else None for output in pair)
GateTuple(gate, pair) ==
    <<IF IsNone(pair[1]) THEN NoneT ELSE ScaleT(gate, pair[1]),
      IF IsNone(pair[2]) THEN NoneT ELSE ScaleT(gate, pair[2])>>

\* the gate that scales the cross-attention branch: _gate_attn
AttnGate(layer) == Tanh(layer.gate_attn)

\* the gate that scales the MLP branch: the comprehension multiplies by
\* _gate_attn; _gate_ffn is computed and not used
MlpGate(layer) == Tanh(layer.gate_attn)

\* get_bias_dropout_add(...)((x, bias), residual, prob) with dropout acting as
\* the identity: residual + x + bias
BiasDropoutAdd(pair, residual) ==
    IF IsNone(pair[2]) THEN AddT(residual, pair[1])
    ELSE AddT(residual, AddT(pair[1], pair[2]))

\* x + bias of a (x, bias) pair, the ungated output of a branch
BranchSum(pair) == IF IsNone(pair[2]) THEN pair[1] ELSE AddT(pair[1], pair[2])

\* CrossAttentionTransformerLayer.forward: returns (output, None); the other
\* fields record the intermediate values of the call.  The two layer norms
\* ahead of the branches are IdentityOp in the layer spec the block builds.
XattnLayerForward(layer, hidden_states, mask, xattn_cache, bias_on) ==
    LET attn      == CrossAttention(hidden_states, mask, xattn_cache, bias_on)
        after_att == BiasDropoutAdd(GateTuple(AttnGate(layer), attn), hidden_states)
        mlp       == Mlp(after_att, bias_on)
        after_mlp == BiasDropoutAdd(GateTuple(MlpGate(layer), mlp), after_att)
    IN  [is_tuple     |-> TRUE,
         first        |-> after_mlp,
         second       |-> NoneT,
         attn_raw     |-> BranchSum(attn),
         mlp_raw      |-> BranchSum(mlp),
         attn_contrib |-> SubT(after_att, hidden_states),
         mlp_contrib  |-> SubT(after_mlp, after_att)]

\* DummyCrossAttentionTransformerLayer.__call__: returns hidden_states itself,
\* a tensor and not a tuple
DummyLayerCall(hidden_states) ==
    [is_tuple     |-> FALSE,
     first        |-> hidden_states,
     second       |-> NoneT,
     attn_raw     |-> NoneT,
     mlp_raw      |-> NoneT,
     attn_contrib |-> NoneT,
     mlp_contrib  |-> NoneT]

\* "hidden_states, context = value": a tuple unpacks into its two items; a
\* tensor is iterated along dimension 0, which needs exactly two slices
Unpack2(value) ==
    IF value.is_tuple
      THEN [outcome |-> "ok", first |-> value.first, second |-> value.second]
    ELSE IF Len(value.first.shape) = 0
      THEN [outcome |-> "TypeError", first |-> NoneT, second |-> NoneT]
    ELSE IF value.first.shape[1] # 2
      THEN [outcome |-> "ValueError", first |-> NoneT, second |-> NoneT]
    ELSE [outcome |-> "ok", first |-> Slice(value.first, 1), second |-> Slice(value.first, 2)]

\* the text self-attention layer self.layers[l_no] (TransformerLayer of
\* Megatron-core): an elementwise stand-in that differs from layer to layer and
\* does not commute across layers; its context is None
SelfAttnLayer(layer_number, hidden_states) ==
    [shape |-> hidden_states.shape,
     data  |-> [k \in 1..Len(hidden_states.data) |-> 2 * hidden_states.data[k] + layer_number]]

(* ----------------------- inputs of a forward call ---------------------- *)

\* the inputs of one forward call that come from the caller: the sizes s and b,
\* the value of the row mask and whether the linear layers return a bias
Env(s, b, mask, bias_on) == [s |-> s, b |-> b, mask |-> mask, bias_on |-> bias_on]

\* xattn_caches, one cache per layer index
XattnCaches(env) == [l \in 1..config.num_layers |-> 10 + l]

\* hidden_states handed to a direct call of the decoder, [s, b, h]
HiddenStatesArg(env) == Iota(<<env.s, env.b, 1>>, 0)

\* self.input_tensor, stored by set_input_tensor before the call, [s, b, h]
InputTensor(env) == Iota(<<env.s, env.b, 1>>, 10)

\* the arguments decoder_input [s, b, h], input_ids, position_ids and labels [b, s]
DecoderInputArg(env) == Iota(<<env.s, env.b, 1>>, 20)

InputIds(env) == Iota(<<env.b, env.s>>, 30)

PositionIds(env) == Iota(<<env.b, env.s>>, 0)

Labels(env) == Iota(<<env.b, env.s>>, 40)

(* ------------------- CrossAttentionTransformerBlock -------------------- *)

\* BuildXattnLayers with the schedule read as layer numbers (from 1) instead
\* of layer indices (from 0)
RECURSIVE BuildXattnLayers_OffByOne(_, _, _, _)
BuildXattnLayers_OffByOne(i, num_layers, fusion_schedule, acc) ==
    IF i >= num_layers THEN acc
    ELSE IF (i + 1) \in fusion_schedule
      THEN BuildXattnLayers_OffByOne(i + 1, num_layers, fusion_schedule,
             [xl |-> Append(acc.xl, [layer_number |-> i + 1, gate_attn |-> 0, gate_ffn |-> 0]),
              xd |-> Append(acc.xd, [is_xattn |-> TRUE, ref |-> Len(acc.xl) + 1])])
    ELSE BuildXattnLayers_OffByOne(i + 1, num_layers, fusion_schedule,
             [xl |-> acc.xl,
              xd |-> Append(acc.xd, [is_xattn |-> FALSE, ref |-> 0])])

\* the loop of CrossAttentionTransformerBlock.__init__ from index i on: acc
\* holds xattn_layers (xl) and xattn_and_dummy_layers (xd); an entry of xd is
\* a real layer, identified by its position ref in xl, or a dummy
RECURSIVE BuildXattnLayers(_, _, _, _)
BuildXattnLayers(i, num_layers, fusion_schedule, acc) ==
    IF i >= num_layers THEN acc
    ELSE IF i \in fusion_schedule
      THEN BuildXattnLayers(i + 1, num_layers, fusion_schedule,
             [xl |-> Append(acc.xl, NewXattnLayer(i + 1)),
              xd |-> Append(acc.xd, [is_xattn |-> TRUE, ref |-> Len(acc.xl) + 1])])
    ELSE BuildXattnLayers(i + 1, num_layers, fusion_schedule,
             [xl |-> acc.xl,
              xd |-> Append(acc.xd, [is_xattn |-> FALSE, ref |-> 0])])

\* TransformerBlock.__init__ builds self.layers: one text layer per index of the
\* pipeline rank, numbered from 1
BuildLayers(num_layers) == [i \in 1..num_layers |-> i]

\* a falsy config value: None (written "<None>") or the empty string
Falsy(v) == v \in {"<None>", ""}

\* Fp8Format with HYBRID as the fallback for an unknown format
Fp8Format_Fallback(fp8) ==
    IF Falsy(fp8) THEN "nullcontext"
    ELSE IF fp8 = "e4m3" THEN "E4M3"
    ELSE "HYBRID"

\* the selection of fp8_format in forward
Fp8Format(fp8) ==
    IF Falsy(fp8) THEN "nullcontext"
    ELSE IF fp8 = "e4m3" THEN "E4M3"
    ELSE IF fp8 = "hybrid" THEN "HYBRID"
    ELSE "ValueError"

\* the context managers the statement "with rng_context and fp8_context:"
\* enters: the operand of with is the value of the "and" expression, which is
\* fp8_context because rng_context, an object, is truthy
EnteredContexts(sequence_parallel, fp8) ==
    <<IF Falsy(fp8) THEN "nullcontext" ELSE "fp8_autocast">>

\* the condition of the eager branch of the layer loop
EagerPath == (Len(cuda_graphs) = 0) \/ (~training)

\* self.current_microbatch, the microbatch whose graph is replayed
current_microbatch == 0

\* self.cuda_graphs[l_no][self.current_microbatch](hidden_states, ...): the
\* replay of the graph captured for text layer l_no
CudaGraphReplay(l_no, hidden_states) == SelfAttnLayer(layers[l_no + 1], hidden_states)

\* a record of one call made by the layer loop
CallEntry(l_no, path, callee, layer_number, input, cache, gates, ret) ==
    [l_no |-> l_no, path |-> path, callee |-> callee, layer_number |-> layer_number,
     input |-> input, cache |-> cache,
     gate_attn |-> gates[1], gate_ffn |-> gates[2], ret |-> ret]

\* the value a call that returns (tensor, None) hands back
TupleReturn(t) ==
    [is_tuple |-> TRUE, first |-> t, second |-> NoneT, attn_raw |-> NoneT,
     mlp_raw |-> NoneT, attn_contrib |-> NoneT, mlp_contrib |-> NoneT]

\* one iteration of the layer loop of forward, for index l_no (from 0);
\* st is [outcome, hidden_states, log].  The text layer returns a context of
\* None, so the assert after it passes; CPU offloading is off.
BlockLayerStep(st, l_no, env) ==
    IF EagerPath
      THEN LET entry == xattn_and_dummy_layers[l_no + 1]
               xl    == IF entry.is_xattn THEN xattn_layers[entry.ref] ELSE NewXattnLayer(0)
               ret   == IF entry.is_xattn
                          THEN XattnLayerForward(xl, st.hidden_states, env.mask,
                                                 XattnCaches(env)[l_no + 1], env.bias_on)
                          ELSE DummyLayerCall(st.hidden_states)
               log1  == Append(st.log,
                          CallEntry(l_no, "eager", IF entry.is_xattn THEN "xattn" ELSE "dummy",
                                    xl.layer_number, st.hidden_states,
                                    XattnCaches(env)[l_no + 1],
                                    <<xl.gate_attn, xl.gate_ffn>>, ret))
               u     == Unpack2(ret)
           IN  IF u.outcome # "ok"
                 THEN [outcome |-> u.outcome, hidden_states |-> NoneT, log |-> log1]
                 ELSE LET out == SelfAttnLayer(layers[l_no + 1], u.first)
                      IN  [outcome       |-> "ok",
                           hidden_states |-> out,
                           log           |-> Append(log1,
                              CallEntry(l_no, "eager", "self", layers[l_no + 1], u.first,
                                        0, <<0, 0>>, TupleReturn(out)))]
    ELSE IF ~((Len(cuda_graphs) > l_no) /\ (current_microbatch < cuda_graphs[l_no + 1]))
      THEN [outcome |-> "AssertionError", hidden_states |-> NoneT, log |-> st.log]
    ELSE LET out == CudaGraphReplay(l_no, st.hidden_states)
         IN  [outcome       |-> "ok",
              hidden_states |-> out,
              log           |-> Append(st.log,
                 CallEntry(l_no, "replay", "graph", layers[l_no + 1], st.hidden_states,
                           0, <<0, 0>>, TupleReturn(out)))]

\* the loop "for l_no, (layer, xattn_layer) in enumerate(zip(...))" from l_no on;
\* an exception ends it
RECURSIVE BlockLayerLoop(_, _, _)
BlockLayerLoop(st, l_no, env) ==
    IF l_no >= Len(layers) \/ l_no >= Len(xattn_and_dummy_layers) \/ st.outcome # "ok"
      THEN st
      ELSE BlockLayerLoop(BlockLayerStep(st, l_no, env), l_no + 1, env)

\* self.final_layernorm, present on the post_process stage
FinalLayerNorm(hidden_states) ==
    [shape |-> hidden_states.shape,
     data  |-> [k \in 1..Len(hidden_states.data) |-> hidden_states.data[k] + 7]]

\* what a forward that raised before or inside the with statement leaves
BlockRaised(outcome, input, fp8_format, entered, log) ==
    [outcome |-> outcome, input |-> input, fp8_format |-> fp8_format,
     entered |-> entered, log |-> log, loop_out |-> NoneT, value |-> NoneT]

\* RecomputeRaises without the test of the training mode
RecomputeRaises_AnyMode(recompute_granularity, is_training) ==
    recompute_granularity = "full"

\* self.config.recompute_granularity == 'full' and self.training
RecomputeRaises(recompute_granularity, is_training) ==
    recompute_granularity = "full" /\ is_training

\* CrossAttentionTransformerBlock.forward(hidden_states, ...)
BlockForward(hidden_states, env) ==
    LET h0      == IF ~pre_process THEN InputTensor(env) ELSE hidden_states
        fmt     == Fp8Format(config.fp8)
        entered == EnteredContexts(config.sequence_parallel, config.fp8)
    IN  IF fmt = "ValueError"
          THEN BlockRaised("ValueError", h0, fmt, <<>>, <<>>)
        ELSE IF RecomputeRaises(config.recompute_granularity, training)
          THEN BlockRaised("NotImplementedError", h0, fmt, entered, <<>>)
        ELSE LET st == BlockLayerLoop([outcome |-> "ok", hidden_states |-> h0, log |-> <<>>],
                                      0, env)
             IN  IF st.outcome # "ok"
                   THEN BlockRaised(st.outcome, h0, fmt, entered, st.log)
                   ELSE [outcome    |-> "ok",
                         input      |-> h0,
                         fp8_format |-> fmt,
                         entered    |-> entered,
                         log        |-> st.log,
                         loop_out   |-> st.hidden_states,
                         value      |-> IF post_process
                                          THEN FinalLayerNorm(st.hidden_states)
                                          ELSE st.hidden_states]

(* ----------------------- CrossAttentionTextModel ----------------------- *)

\* self.embedding(input_ids=..., position_ids=...): from ids of shape [b, s]
\* to a decoder input of shape [s, b, h]
Embedding(input_ids, position_ids) ==
    LET t == Transpose01(AddT(input_ids, position_ids))
    IN  [shape |-> t.shape \o <<1>>, data |-> t.data]

\* self.output_layer(hidden_states, weight=...): the logits, in the layout of
\* the hidden states
OutputLayer(hidden_states) == ScaleT(3, hidden_states)

\* self.compute_language_model_loss(labels, logits): labels are [b, s], the
\* logits [s, b, h]; the loss is [b, s]
LanguageModelLoss(labels, logits) ==
    LET t == Transpose01(logits)
    IN  [shape |-> labels.shape,
         data  |-> [k \in 1..Len(labels.data) |-> t.data[k] - labels.data[k]]]

\* the record of a forward call; what is kept of CrossAttentionTextModel.forward
\* and of a direct call of the decoder
ForwardRecord(kind, env, di_given, labels_given, emb_called, out_called, decoder_arg, block, outcome, ret_kind, logits, ret) ==
    [kind |-> kind, env |-> env, decoder_input_given |-> di_given,
     labels_given |-> labels_given, embedding_called |-> emb_called,
     output_layer_called |-> out_called, decoder_arg |-> decoder_arg,
     block |-> block, outcome |-> outcome, ret_kind |-> ret_kind,
     logits |-> logits, ret |-> ret]

\* no forward call has been made yet
NoForward ==
    ForwardRecord("none", Env(1, 1, 0, FALSE), FALSE, FALSE, FALSE, FALSE, NoneT,
                  BlockRaised("none", NoneT, "nullcontext", <<>>, <<>>),
                  "none", "none", NoneT, NoneT)

\* DecoderInput with the pre_process test ahead of the decoder_input test
DecoderInput_EmbedFirst(di_given, env) ==
    IF pre_process THEN Embedding(InputIds(env), PositionIds(env))
    ELSE IF di_given THEN DecoderInputArg(env)
    ELSE NoneT

\* the decoder input chosen by the "Decoder embedding" branch of forward
DecoderInput(di_given, env) ==
    IF di_given THEN DecoderInputArg(env)
    ELSE IF pre_process THEN Embedding(InputIds(env), PositionIds(env))
    ELSE NoneT

\* whether that branch calls self.embedding
EmbeddingCalled(di_given) == (~di_given) /\ pre_process

\* the "logits and loss" part of forward, on a post_process stage: from the
\* logits of the output layer to the returned value
TextLogitsAndLoss(labels_given, env, logits) ==
    IF Len(logits.shape) < 2
      THEN [outcome |-> "IndexError", ret_kind |-> "none", ret |-> NoneT]
    ELSE IF ~labels_given
      THEN [outcome |-> "ok", ret_kind |-> "logits", ret |-> Transpose01(logits)]
    ELSE IF Len(logits.data) # Len(Labels(env).data)
      THEN [outcome |-> "RuntimeError", ret_kind |-> "none", ret |-> NoneT]
    ELSE [outcome |-> "ok", ret_kind |-> "loss",
          ret |-> LanguageModelLoss(Labels(env), logits)]

\* forward from the return of the decoder on: blk is what the decoder did
TextAfterDecoder(di_given, labels_given, env, decoder_input, blk) ==
    IF blk.outcome # "ok"
      THEN ForwardRecord("text", env, di_given, labels_given, EmbeddingCalled(di_given),
                         FALSE, decoder_input, blk, blk.outcome, "none", NoneT, NoneT)
    ELSE IF ~post_process
      THEN ForwardRecord("text", env, di_given, labels_given, EmbeddingCalled(di_given),
                         FALSE, decoder_input, blk, "ok", "hidden", NoneT, blk.value)
    ELSE LET r == TextLogitsAndLoss(labels_given, env, OutputLayer(blk.value))
         IN  ForwardRecord("text", env, di_given, labels_given, EmbeddingCalled(di_given),
                           TRUE, decoder_input, blk, r.outcome, r.ret_kind,
                           OutputLayer(blk.value), r.ret)

\* CrossAttentionTextModel.forward; the rotary embedding it hands to the
\* decoder is consumed inside the attention modules and is not kept
TextModelForward(di_given, labels_given, env) ==
    TextAfterDecoder(di_given, labels_given, env, DecoderInput(di_given, env),
                     BlockForward(DecoderInput(di_given, env), env))

(* -------------------------- apply_rope_scaling ------------------------- *)

\* Rationals are pairs <<numerator, denominator>> with a positive denominator,
\* in lowest terms.  An inverse frequency is kept as the rational c with
\* inv_freq = 2 * pi * c, so that its wavelength 2 * pi / inv_freq is 1 / c.

RECURSIVE Gcd(_, _)
Gcd(a, b) == IF b = 0 THEN a ELSE Gcd(b, a % b)

Abs(n) == IF n < 0 THEN 0 - n ELSE n

Norm(r) ==
    LET g == Gcd(Abs(r[1]), r[2])
    IN  <<r[1] \div g, r[2] \div g>>

Rat(n) == <<n, 1>>

RAdd(x, y) == Norm(<<x[1] * y[2] + y[1] * x[2], x[2] * y[2]>>)

RSub(x, y) == Norm(<<x[1] * y[2] - y[1] * x[2], x[2] * y[2]>>)

RMul(x, y) == Norm(<<x[1] * y[1], x[2] * y[2]>>)

\* x / y for y > 0
RDiv(x, y) == Norm(<<x[1] * y[2], x[2] * y[1]>>)

RLt(x, y) == x[1] * y[2] < y[1] * x[2]

RLe(x, y) == x[1] * y[2] <= y[1] * x[2]

\* wavelen = 2 * math.pi / inv_freq
Wavelen(inv_freq) == RDiv(Rat(1), inv_freq)

\* InvFreqLlama with the low-frequency band closed at low_freq_wavelen
InvFreqLlama_Inclusive(inv_freq, factor, low_freq_wavelen) ==
    IF RLe(low_freq_wavelen, Wavelen(inv_freq))
      THEN RDiv(inv_freq, Rat(factor))
      ELSE inv_freq

\* torch.where(wavelen > low_freq_wavelen, inv_freq / factor, inv_freq)
InvFreqLlama(inv_freq, factor, low_freq_wavelen) ==
    IF RLt(low_freq_wavelen, Wavelen(inv_freq))
      THEN RDiv(inv_freq, Rat(factor))
      ELSE inv_freq

\* (old_context_len / wavelen - low_freq_factor) / (high_freq_factor - low_freq_factor)
SmoothFactor(inv_freq, low_freq_factor, high_freq_factor, old_context_len) ==
    RDiv(RSub(RDiv(Rat(old_context_len), Wavelen(inv_freq)), Rat(low_freq_factor)),
         Rat(high_freq_factor - low_freq_factor))

\* IsMediumFreq without the test against low_freq_wavelen
IsMediumFreq_NoUpper(wavelen, low_freq_wavelen, high_freq_wavelen) ==
    ~RLt(wavelen, high_freq_wavelen)

\* is_medium_freq = ~(wavelen < high_freq_wavelen) * ~(wavelen > low_freq_wavelen)
IsMediumFreq(wavelen, low_freq_wavelen, high_freq_wavelen) ==
    (~RLt(wavelen, high_freq_wavelen)) /\ (~RLt(low_freq_wavelen, wavelen))

\* apply_rope_scaling on one element of inv_freq
RopeScaleElem(inv_freq, factor, low_freq_factor, high_freq_factor, old_context_len) ==
    LET low_freq_wavelen  == RDiv(Rat(old_context_len), Rat(low_freq_factor))
        high_freq_wavelen == RDiv(Rat(old_context_len), Rat(high_freq_factor))
        inv_freq_llama    == InvFreqLlama(inv_freq, factor, low_freq_wavelen)
        smooth_factor     == SmoothFactor(inv_freq, low_freq_factor, high_freq_factor,
                                          old_context_len)
        smoothed_inv_freq == RAdd(RDiv(RMul(RSub(Rat(1), smooth_factor), inv_freq_llama),
                                       Rat(factor)),
                                  RMul(smooth_factor, inv_freq_llama))
    IN  IF IsMediumFreq(Wavelen(inv_freq), low_freq_wavelen, high_freq_wavelen)
          THEN smoothed_inv_freq
          ELSE inv_freq_llama

\* apply_rope_scaling(inv_freq, factor, low_freq_factor, high_freq_factor,
\* old_context_len): the tensor operations act on every element
ApplyRopeScaling(inv_freq, factor, low_freq_factor, high_freq_factor, old_context_len) ==
    [k \in 1..Len(inv_freq) |->
       RopeScaleElem(inv_freq[k], factor, low_freq_factor, high_freq_factor, old_context_len)]

\* the arguments and the result of the call of apply_rope_scaling
RopeRecord(called, inv_freq, factor, low_freq_factor, high_freq_factor, old_context_len, result) ==
    [called |-> called, inv_freq |-> inv_freq, factor |-> factor,
     low_freq_factor |-> low_freq_factor, high_freq_factor |-> high_freq_factor,
     old_context_len |-> old_context_len, result |-> result]

\* no call of apply_rope_scaling is under way
NoRope == RopeRecord(FALSE, <<>>, 8, 1, 4, 8192, <<>>)

(* ------------------- common/prompts/gemma.py: gemma1 ------------------- *)

\* A text is the sequence of its pieces; "NL" is the newline character, and
\* the concatenation of texts is \o.

\* largest number of cuts of a CutSet
MaxCuts == 1

GEMMA_BOS == <<"<start_of_turn>">>

GEMMA_END_OF_TURN == <<"<end_of_turn>">>

GEMMA_NL == <<"NL", "NL">>

OUTPUT_ROLE == "assistant"

INSERT_BOS == TRUE

INSERT_EOS == TRUE

\* UserTemplate with GEMMA_NL in the place of the single newlines
UserTemplate_DoubleNewline ==
    GEMMA_BOS \o <<"user">> \o GEMMA_NL \o <<"|message|">> \o GEMMA_END_OF_TURN
      \o GEMMA_NL \o GEMMA_BOS \o <<"model">> \o GEMMA_NL

\* TEMPLATE["user"]["template"]
UserTemplate ==
    GEMMA_BOS \o <<"user", "NL", "|message|">> \o GEMMA_END_OF_TURN \o <<"NL">>
      \o GEMMA_BOS \o <<"model", "NL">>

\* TEMPLATE[OUTPUT_ROLE]["template"]
AssistantTemplate == <<"|message|">> \o GEMMA_END_OF_TURN \o <<"NL">>

\* GemmaPromptFormatter.TEMPLATE: by role, the template and the slots with
\* their modality
TEMPLATE ==
    [role \in {"user", OUTPUT_ROLE} |->
       IF role = "user"
         THEN [template |-> UserTemplate, slots |-> [message |-> "Text"]]
         ELSE [template |-> AssistantTemplate, slots |-> [message |-> "Text"]]]

\* the placeholder of a slot in a template
Mangled(slot) == IF slot = "message" THEN "|message|" ELSE "|system|"

\* PromptFormatter: the template with every placeholder of the slot replaced by
\* the value
RECURSIVE RenderTemplate(_, _, _)
RenderTemplate(template, slot, value) ==
    IF template = <<>> THEN <<>>
    ELSE (IF Head(template) = Mangled(slot) THEN value ELSE <<Head(template)>>)
           \o RenderTemplate(Tail(template), slot, value)

\* the concatenation of a sequence of texts
RECURSIVE Concat(_)
Concat(texts) == IF texts = <<>> THEN <<>> ELSE Head(texts) \o Concat(Tail(texts))

\* PromptFormatter.encode_dialog(turns): every role must be a role of TEMPLATE;
\* the turns are rendered one by one and joined, after BOS when INSERT_BOS and
\* before EOS when INSERT_EOS and the last turn is of OUTPUT_ROLE; the answer
\* is the rendering of a last turn of OUTPUT_ROLE.  The tokenizer is the
\* identity on pieces.
EncodeDialog(turns) ==
    IF \E k \in 1..Len(turns) : turns[k].role \notin DOMAIN TEMPLATE
      THEN [outcome |-> "AssertionError", rendered |-> <<>>, input_ids |-> <<>>,
            context_ids |-> <<>>, answer_ids |-> <<>>, has_answer |-> FALSE]
    ELSE LET rendered == [k \in 1..Len(turns) |->
                            RenderTemplate(TEMPLATE[turns[k].role].template, "message",
                                           turns[k].slots.message)]
             has_ans  == turns[Len(turns)].role = OUTPUT_ROLE
             bos      == IF INSERT_BOS THEN <<"[BOS]">> ELSE <<>>
             eos      == IF INSERT_EOS /\ has_ans THEN <<"[EOS]">> ELSE <<>>
             answer   == IF has_ans THEN rendered[Len(turns)] \o eos ELSE <<>>
             context  == bos \o Concat(IF has_ans
                                         THEN SubSeq(rendered, 1, Len(turns) - 1)
                                         ELSE rendered)
         IN  [outcome |-> "ok", rendered |-> rendered, input_ids |-> context \o answer,
              context_ids |-> context, answer_ids |-> answer, has_answer |-> has_ans]

\* a custom field that a cut does not have, and a supervision text of None
Absent == <<"<absent>">>

\* the fields gemma1 reads from a cut
CutFields(context, question, system_prompt, default_context, answer) ==
    [context |-> context, question |-> question, system_prompt |-> system_prompt,
     default_context |-> default_context, answer |-> answer]

\* a cut: is_mixed tells a MixedCut, own holds the fields read on the cut
\* itself and first_non_padding_cut the fields of that track of a MixedCut
Cut(is_mixed, own, first_non_padding_cut) ==
    [is_mixed |-> is_mixed, own |-> own, first_non_padding_cut |-> first_non_padding_cut]

\* cut.has_custom(name)
HasCustom(fields, name) ==
    CASE name = "context"       -> fields.context # Absent
      [] name = "question"      -> fields.question # Absent
      [] name = "system_prompt" -> fields.system_prompt # Absent

\* "if isinstance(cut, MixedCut): cut = cut.first_non_padding_cut": the fields
\* every later statement of the iteration reads
Gemma1Cut(cut) == IF cut.is_mixed THEN cut.first_non_padding_cut ELSE cut.own

\* Gemma1Context with the question ahead of the context
Gemma1Context_QuestionFirst(cut) ==
    LET c == Gemma1Cut(cut)
    IN  IF HasCustom(c, "question") THEN c.question
        ELSE IF HasCustom(c, "context") THEN c.context
        ELSE c.default_context

\* the context chosen for a cut
Gemma1Context(cut) ==
    LET c == Gemma1Cut(cut)
    IN  IF HasCustom(c, "context") THEN c.context
        ELSE IF HasCustom(c, "question") THEN c.question
        ELSE c.default_context

\* the turns built for a cut
Gemma1Turns(cut) ==
    LET c     == Gemma1Cut(cut)
        first == IF HasCustom(c, "system_prompt")
                   THEN [role  |-> "system_and_user",
                         slots |-> [system |-> c.system_prompt, message |-> Gemma1Context(cut)]]
                   ELSE [role  |-> "user",
                         slots |-> [system |-> Absent, message |-> Gemma1Context(cut)]]
    IN  IF c.answer # Absent
          THEN <<first, [role  |-> "assistant",
                         slots |-> [system |-> Absent, message |-> c.answer]]>>
          ELSE <<first>>

\* ans[k].append(v) for every key k of an encoded dialog
AppendDialog(ans, d) ==
    [input_ids   |-> Append(ans.input_ids, d.input_ids),
     context_ids |-> Append(ans.context_ids, d.context_ids),
     answer_ids  |-> IF d.has_answer THEN Append(ans.answer_ids, d.answer_ids)
                     ELSE ans.answer_ids]

\* the loop "for cut in cuts" of gemma1 from position k on; an exception of
\* encode_dialog ends it.  acc keeps the outcome, the turns and the encoded
\* dialog of every cut reached, and ans.
RECURSIVE Gemma1Loop(_, _, _)
Gemma1Loop(cuts, k, acc) ==
    IF k > Len(cuts) \/ acc.outcome # "ok" THEN acc
    ELSE LET turns == Gemma1Turns(cuts[k])
             d     == EncodeDialog(turns)
         IN  Gemma1Loop(cuts, k + 1,
               [outcome |-> d.outcome,
                turns   |-> Append(acc.turns, turns),
                dialogs |-> Append(acc.dialogs, d),
                ans     |-> IF d.outcome = "ok" THEN AppendDialog(acc.ans, d) ELSE acc.ans])

\* gemma1(cuts, tokenizer)
Gemma1(cuts) ==
    Gemma1Loop(cuts, 1,
      [outcome |-> "ok", turns |-> <<>>, dialogs |-> <<>>,
       ans |-> [input_ids |-> <<>>, context_ids |-> <<>>, answer_ids |-> <<>>]])

\* the call of gemma1: its argument and what it did
GemmaRecord(called, cuts, run) == [called |-> called, cuts |-> cuts, run |-> run]

\* no call of gemma1 is under way
NoGemma == GemmaRecord(FALSE, <<>>, Gemma1(<<>>))

(* ------- nlp/models/information_retrieval: MegatronGPTEmbeddingModel ---- *)

\* largest number of files of data_cfg.file_names
MaxFiles == 2

\* an optional integer: None, or the value v
NoneInt == [is_none |-> TRUE, v |-> 0]

SomeInt(v) == [is_none |-> FALSE, v |-> v]

\* data_cfg.file_names or data_cfg.concat_sampling_probabilities: kind is
\* "None", "ListConfig" or "list" (any other type), items its elements
CfgList(kind, items) == [kind |-> kind, items |-> items]

\* the sum of a sequence of integers
RECURSIVE SumSeq(_)
SumSeq(xs) == IF xs = <<>> THEN 0 ELSE Head(xs) + SumSeq(Tail(xs))

\* get_datasets_weights_and_num_samples(data_prefix, num_train_samples): the
\* weights are normalised and dataset k gets ceil(n * weight_k * 1.005)
\* samples; weights are whole numbers here
NumSamplesPerDataset(weights, n) ==
    [k \in 1..Len(weights) |->
       (n * weights[k] * 1005 + 1000 * SumSeq(weights) - 1) \div (1000 * SumSeq(weights))]

\* MaxStepsInvalid with a max_steps of 0 accepted
MaxStepsInvalid_ZeroAccepted(max_steps) == max_steps.is_none \/ max_steps.v < 0

\* self.trainer.max_steps is None or self.trainer.max_steps <= 0
MaxStepsInvalid(max_steps) == max_steps.is_none \/ max_steps.v <= 0

\* the checks of _build_dataset, in the order of the code: the name of the
\* first one that raises ValueError, or "none"
BuildDatasetCheck(file_names, csp, max_steps, is_train) ==
    IF file_names.kind # "ListConfig" THEN "file_names"
    ELSE IF ~is_train THEN "none"
    ELSE IF csp.kind = "None" \/ csp.kind # "ListConfig" THEN "concat_sampling_probabilities"
    ELSE IF Len(csp.items) # Len(file_names.items) THEN "length"
    ELSE IF MaxStepsInvalid(max_steps) THEN "max_steps"
    ELSE "none"

\* the clamp of data_cfg.max_seq_length to max_position_embeddings
ClampedMaxSeqLength(position_embedding_type, max_seq_length, max_position_embeddings) ==
    IF position_embedding_type \in {"<None>", "learned_absolute"}
         /\ max_seq_length > max_position_embeddings
      THEN max_position_embeddings
      ELSE max_seq_length

\* the call GPTEmbeddingDataset(file_path=..., max_seq_length=..., max_num_samples=...)
EmbeddingDataset(file_path, max_seq_length, max_num_samples) ==
    [file_path |-> file_path, max_seq_length |-> max_seq_length,
     max_num_samples |-> max_num_samples]

\* what a call of _build_dataset did: the outcome, the check that raised, the
\* GPTEmbeddingDataset objects constructed, the kind of the returned value and
\* data_cfg.max_seq_length after the call
BuildResult(outcome, raised_by, datasets, ret_kind, max_seq_length) ==
    [outcome |-> outcome, raised_by |-> raised_by, datasets |-> datasets,
     ret_kind |-> ret_kind, max_seq_length |-> max_seq_length]

\* MegatronGPTEmbeddingModel._build_dataset(data_cfg, is_train)
BuildDataset(cfg, data_cfg, max_steps, is_train) ==
    LET check == BuildDatasetCheck(data_cfg.file_names, data_cfg.concat_sampling_probabilities,
                                   max_steps, is_train)
        msl   == ClampedMaxSeqLength(cfg.position_embedding_type, data_cfg.max_seq_length,
                                     cfg.max_position_embeddings)
        files == data_cfg.file_names.items
    IN  IF check # "none"
          THEN BuildResult("ValueError", check, <<>>, "none", data_cfg.max_seq_length)
        ELSE IF is_train /\ SumSeq(data_cfg.concat_sampling_probabilities.items) = 0
          THEN BuildResult("AssertionError", "none", <<>>, "none", data_cfg.max_seq_length)
        ELSE IF is_train
          THEN LET n == NumSamplesPerDataset(data_cfg.concat_sampling_probabilities.items,
                                             max_steps.v * data_cfg.global_batch_size)
               IN  BuildResult("ok", "none",
                               [k \in 1..Len(files) |->
                                  EmbeddingDataset(files[k], msl, SomeInt(n[k]))],
                               "BlendableDataset", msl)
        ELSE BuildResult("ok", "none",
                         [k \in 1..Len(files) |-> EmbeddingDataset(files[k], msl, NoneInt)],
                         "list", msl)

\* largest data-parallel world size
MaxRanks == 2

\* a truthy value of metadata.get("__AUTOGENERATED__", False); the flag of a
\* metadata dict is "missing", "False" or "True"
Truthy(flag) == flag = "True"

\* the batch with index b of the outputs of a rank, one example per flag:
\* q_hs and d_hs hold one row per example, metadata one dict per example
OutputBatch(rank, b, flags) ==
    [q_hs     |-> [i \in 1..Len(flags) |-> 100 * rank + 10 * b + i],
     d_hs     |-> [i \in 1..Len(flags) |-> 1000 + 100 * rank + 10 * b + i],
     metadata |-> [i \in 1..Len(flags) |->
                     [id |-> 100 * rank + 10 * b + i, flag |-> flags[i]]]]

\* the outputs of a rank, one batch per list of flags
RankOutput(rank, flag_lists) ==
    [b \in 1..Len(flag_lists) |-> OutputBatch(rank, b, flag_lists[b])]

\* the accumulator of the deduplication loop at its start
NoGathered == [q_hs |-> <<>>, d_hs |-> <<>>, metadata |-> <<>>, total_size |-> 0]

\* GatherExample with total_size counting the kept examples only
GatherExample_CountKept(acc, q_hs, d_hs, metadata) ==
    IF ~Truthy(metadata.flag)
      THEN [q_hs       |-> Append(acc.q_hs, q_hs),
            d_hs       |-> Append(acc.d_hs, d_hs),
            metadata   |-> Append(acc.metadata, metadata),
            total_size |-> acc.total_size + 1]
      ELSE acc

\* the body of the innermost loop, for one example
GatherExample(acc, q_hs, d_hs, metadata) ==
    IF ~Truthy(metadata.flag)
      THEN [q_hs       |-> Append(acc.q_hs, q_hs),
            d_hs       |-> Append(acc.d_hs, d_hs),
            metadata   |-> Append(acc.metadata, metadata),
            total_size |-> acc.total_size + 1]
      ELSE [acc EXCEPT !.total_size = acc.total_size + 1]

\* min(a, b)
Min(a, b) == IF a < b THEN a ELSE b

\* "for q_hs, d_hs, metadata in zip(batch['q_hs'], batch['d_hs'],
\* batch['metadata'])" from position i on: zip stops at the shortest list
RECURSIVE GatherBatch(_, _, _)
GatherBatch(acc, batch, i) ==
    IF i > Min(Len(batch.q_hs), Min(Len(batch.d_hs), Len(batch.metadata))) THEN acc
    ELSE GatherBatch(GatherExample(acc, batch.q_hs[i], batch.d_hs[i], batch.metadata[i]),
                     batch, i + 1)

\* "for batch in gathered_outputs[rank]" from batch b on
RECURSIVE GatherRank(_, _, _)
GatherRank(acc, batches, b) ==
    IF b > Len(batches) THEN acc
    ELSE GatherRank(GatherBatch(acc, batches[b], 1), batches, b + 1)

\* "for rank in range(0, world_size)" from rank r on (gathered_outputs[r] is
\* element r + 1 of the sequence)
RECURSIVE GatherAll(_, _, _)
GatherAll(acc, gathered_outputs, r) ==
    IF r >= Len(gathered_outputs) THEN acc
    ELSE GatherAll(GatherRank(acc, gathered_outputs[r + 1], 1), gathered_outputs, r + 1)

\* self.val_metric_name if mode == 'validation' else self.test_metric_name
MetricName(mode, val_metric_name, test_metric_name) ==
    IF mode = "validation" THEN val_metric_name ELSE test_metric_name

\* WritesEmbeddings without the test of the global rank
WritesEmbeddings_AnyRank(global_rank, data_cfg) ==
    data_cfg.write_embeddings_to_file = "True"

\* self.global_rank == 0 and data_cfg.get("write_embeddings_to_file", False);
\* the key is "missing", "False" or "True"
WritesEmbeddings(global_rank, data_cfg) ==
    global_rank = 0 /\ data_cfg.write_embeddings_to_file = "True"

\* not hasattr(data_cfg, "output_file_path_prefix") or the prefix is None; the
\* prefix is "<missing>", "<None>" or a path
PrefixUnset(data_cfg) == data_cfg.output_file_path_prefix \in {"<missing>", "<None>"}

\* self._determine_log_key(data_cfg, dataloader_idx, None, mode)
DetermineLogKey(mode, dataloader_idx) == <<mode, "dataloader", dataloader_idx>>

\* write_embeddings_to_file(outputs, output_file_path): torch.cat raises
\* RuntimeError on an empty list, before any file is saved; otherwise the two
\* files are saved, q_hs first
WriteEmbeddingsToFile(outputs, output_file_path) ==
    IF outputs.q_hs = <<>>
      THEN [outcome |-> "RuntimeError", files |-> <<>>]
      ELSE [outcome |-> "ok",
            files   |-> <<[path |-> output_file_path \o <<"_q_hs.npy">>, data |-> outputs.q_hs],
                          [path |-> output_file_path \o <<"_d_hs.npy">>, data |-> outputs.d_hs]>>]

\* what a call of gather_and_maybe_write_predictions did: the outcome, the
\* lists at the end of the deduplication loop, the files saved and whether the
\* call returned (deduplicated_outputs, total_size)
GatherResult(outcome, dedup, files, returned) ==
    [outcome |-> outcome, dedup |-> dedup, files |-> files, returned |-> returned]

\* gather_and_maybe_write_predictions(output, data_cfg, mode, dataloader_idx)
\* on the rank self.global_rank, gathered_outputs being what all_gather_object
\* collected
GatherAndMaybeWritePredictions(model, gathered_outputs, data_cfg, mode, dataloader_idx) ==
    LET dedup == GatherAll(NoGathered, gathered_outputs, 0)
    IN  IF MetricName(mode, model.val_metric_name, model.test_metric_name) # "loss"
          THEN GatherResult("AssertionError", dedup, <<>>, FALSE)
        ELSE IF ~WritesEmbeddings(model.global_rank, data_cfg)
          THEN GatherResult("ok", dedup, <<>>, TRUE)
        ELSE IF PrefixUnset(data_cfg)
          THEN GatherResult("ValueError", dedup, <<>>, FALSE)
        ELSE LET w == WriteEmbeddingsToFile(dedup,
                        <<data_cfg.output_file_path_prefix, "_">>
                          \o DetermineLogKey(mode, dataloader_idx))
             IN  GatherResult(w.outcome, dedup, w.files, w.outcome = "ok")

\* largest number of (query, positive, negative) triples of a batch
MaxBatch == 3

\* largest num_soft_negatives
MaxSoftNegatives == 2

\* Hidden states are vectors of whole numbers whose norm is a whole number;
\* similarities are rationals.

\* x[start::step] of a sequence, start counted from 0
Strided(x, start, step) ==
    [i \in 1..((Len(x) - start + step - 1) \div step) |-> x[start + (i - 1) * step + 1]]

\* the sum of a sequence of rationals
RECURSIVE RSum(_)
RSum(xs) == IF xs = <<>> THEN Rat(0) ELSE RAdd(Head(xs), RSum(Tail(xs)))

\* the inner product of two vectors of rationals
Dot(u, v) == RSum([k \in 1..Len(u) |-> RMul(u[k], v[k])])

\* torch.norm(v): the root of the sum of the squares
VecNorm(v) ==
    LET n == SumSeq([k \in 1..Len(v) |-> v[k] * v[k]])
    IN  CHOOSE r \in 0..n : r * r = n

\* v / torch.norm(v, dim=-1, keepdim=True)
Normalized(v) == [k \in 1..Len(v) |-> Norm(<<v[k], VecNorm(v)>>)]

\* torch.nn.functional.cosine_similarity(u, v, dim=-1) of two rows
CosineSimilarity(u, v) == Dot(Normalized(u), Normalized(v))

\* the results torch.multinomial(soft_neg_samples, K, replacement=False) can
\* give for weights that are 1 off the diagonal and 0 on it: row i holds K
\* distinct indices other than i (rows and indices counted from 0)
SoftNegSamples(batch, K) ==
    {s \in [0..(batch - 1) -> [1..K -> 0..(batch - 1)]] :
       \A i \in 0..(batch - 1) :
         /\ \A k \in 1..K : s[i][k] # i
         /\ \A k1, k2 \in 1..K : (k1 # k2) => (s[i][k1] # s[i][k2])}

\* torch.mm(query_hs, pos_doc_hs.transpose(0, 1)) * (1.0 / self.temperature),
\* rows and columns counted from 0
AllCs(query_hs, pos_doc_hs, temperature) ==
    [i \in 0..(Len(query_hs) - 1) |->
       [j \in 0..(Len(pos_doc_hs) - 1) |->
          RDiv(Dot(query_hs[i + 1], pos_doc_hs[j + 1]), temperature)]]

\* all_cs[soft_neg_samples][:, :, 0]: indexing with the sample tensor picks
\* whole rows of all_cs, of which column 0 is kept
SoftNegCs(all_cs, soft_neg_samples, K) ==
    [i \in DOMAIN all_cs |-> [k \in 1..K |-> all_cs[soft_neg_samples[i][k]][0]]]

\* what a call of loss_func did: the outcome, the normalised query and
\* positive rows it returns, all_cs, the samples drawn, soft_neg_cs and the
\* logits cs handed to cross_entropy with target class 0
LossResult(outcome, query_hs, pos_doc_hs, all_cs, soft_neg_samples, soft_neg_cs, cs) ==
    [outcome |-> outcome, query_hs |-> query_hs, pos_doc_hs |-> pos_doc_hs,
     all_cs |-> all_cs, soft_neg_samples |-> soft_neg_samples,
     soft_neg_cs |-> soft_neg_cs, cs |-> cs]

\* loss_func from eos_tensors = output_tensor[loss_mask, idx, :] on, for the
\* samples the multinomial draw gives
LossFunc(model, eos_tensors, soft_neg_samples) ==
    LET query_raw == Strided(eos_tensors, 0, 3)
        pos_raw   == Strided(eos_tensors, 1, 3)
        neg_raw   == Strided(eos_tensors, 2, 3)
        batch     == Len(query_raw)
        K         == model.num_soft_negatives
        neg_cs    == [i \in 1..batch |->
                        RDiv(CosineSimilarity(query_raw[i], neg_raw[i]), model.temperature)]
        query_hs   == [i \in 1..batch |-> Normalized(query_raw[i])]
        pos_doc_hs == [i \in 1..batch |-> Normalized(pos_raw[i])]
        all_cs     == AllCs(query_hs, pos_doc_hs, model.temperature)
    IN  IF K > 0 /\ ~(K < batch)
          THEN LossResult("AssertionError", query_hs, pos_doc_hs, <<>>, <<>>, <<>>, <<>>)
        ELSE IF K > 0
          THEN LET soft_neg_cs == SoftNegCs(all_cs, soft_neg_samples, K)
               IN  LossResult("ok", query_hs, pos_doc_hs, all_cs, soft_neg_samples, soft_neg_cs,
                              [i \in 1..batch |->
                                 <<all_cs[i - 1][i - 1], neg_cs[i]>> \o soft_neg_cs[i - 1]])
        ELSE LossResult("ok", query_hs, pos_doc_hs, <<>>, <<>>, <<>>,
                        [i \in 1..batch |->
                           <<RDiv(CosineSimilarity(query_raw[i], pos_raw[i]), model.temperature),
                             neg_cs[i]>>])

\* the model attributes the three methods read
EmbeddingModel(temperature, num_soft_negatives, global_rank, val_metric_name, max_steps, position_embedding_type) ==
    [temperature |-> temperature, num_soft_negatives |-> num_soft_negatives,
     global_rank |-> global_rank, val_metric_name |-> val_metric_name,
     test_metric_name |-> "loss", max_steps |-> max_steps,
     position_embedding_type |-> position_embedding_type, max_position_embeddings |-> 2]

\* a call of a method of the model: the method, whether it has run, the model,
\* the arguments and the result
EmbedRecord(op, called, model, args, result) ==
    [op |-> op, called |-> called, model |-> model, args |-> args, result |-> result]

\* no call of the embedding model is under way
NoEmbed ==
    EmbedRecord("none", FALSE, EmbeddingModel(Rat(1), 0, 0, "loss", NoneInt, "<None>"), <<>>, <<>>)

(* ------------------ slm/api.py: the three entry points ----------------- *)

\* cfg['model'].get('peft', None) is truthy; the key is "<missing>", or holds
\* "<None>", the empty dict "{}" or a PEFT config
PeftSet(peft_cfg) == peft_cfg \notin {"<missing>", "<None>", "{}"}

\* the first statements: typechecks off, the config as a container, logged
StartCalls == <<"typecheck.set_typecheck_enabled(False)", "OmegaConf.to_container",
                "logging.info">>

\* "1. build the model": the tokenizer, the model config and the model
BuildModelCalls ==
    <<"AutoTokenizer", "Serialization.from_config_dict(llm.config)", "ASRModuleConfig",
      "ModalityAdapterConfig", "SpeechToTextLLMConfig", "SpeechToTextLLM">>

\* "2. build dataset"
BuildDataCalls == <<"AudioToTextDataModule">>

\* "3. setup the optimizer"
BuildOptimCalls == <<"Serialization.from_config_dict(optim)">>

\* "4. setup trainer"
BuildTrainerCalls ==
    <<"Serialization.from_config_dict(strategy)", "get_object_list_from_config(plugins)",
      "get_object_list_from_config(callbacks)", "nl.Trainer">>

\* "5. setup PEFT"
SetupPeftCalls(peft_cfg) ==
    IF PeftSet(peft_cfg)
      THEN <<"Serialization.from_config_dict(peft)", "SpeechToTextLLMPEFT">>
      ELSE <<>>

\* the value of the variable peft after step 5
PeftValue(peft_cfg) == IF PeftSet(peft_cfg) THEN "SpeechToTextLLMPEFT" ELSE "<None>"

\* "6. setup logger and auto-resume"
SetupLoggerCalls ==
    <<"Serialization.from_config_dict(resume)", "Serialization.from_config_dict(logger)">>

\* RunCalls with the trainer called without _setup
RunCalls_NoSetup(entry) ==
    CASE entry = "train"    -> <<"llm.finetune">>
      [] entry = "validate" -> <<"trainer.validate", "pdb.set_trace">>
      [] entry = "generate" -> <<"trainer.predict">>

\* "7. train the model" / "7. run the inference"
RunCalls(entry) ==
    CASE entry = "train"    -> <<"llm.finetune">>
      [] entry = "validate" -> <<"_setup", "trainer.validate", "pdb.set_trace">>
      [] entry = "generate" -> <<"_setup", "trainer.predict">>

\* a run of an entry point: pc is the number of the next step (0 the first
\* statements, 8 the return); status is "running", "returned" or "raised"; log
\* the calls made so far; peft the variable peft; run_peft what step 7 handed
\* over as peft (train) or model_transform (validate, generate)
SlmRecord(entry, peft_cfg, pc, status, log, peft, run_peft) ==
    [entry |-> entry, peft_cfg |-> peft_cfg, pc |-> pc, status |-> status, log |-> log,
     peft |-> peft, run_peft |-> run_peft]

\* no entry point is running
NoSlm == SlmRecord("none", "<missing>", 0, "idle", <<>>, "<unbound>", "<unbound>")


(* --------------------------- state machine ----------------------------- *)

\* the configurations and module states explored
Schedules == SUBSET (0..MaxLayers)

Fp8Choices == {"<None>", "", "e4m3", "hybrid", "e5m2"}

RecomputeChoices == {"<None>", "selective", "full"}

\* self.cuda_graphs: empty, or the graphs captured for the first n layers (the
\* number of microbatch graphs of each layer is what is kept)
CudaGraphChoices == {<<>>} \cup {[l \in 1..n |-> 1] : n \in 1..MaxLayers}

\* the state before the model is constructed, for the given choices
InitWith(schedules, fp8s, recomputes, seqpars, pres, posts, trainings, graphs) ==
    /\ config \in [num_layers            : {MaxLayers},
                   fusion_schedule       : schedules,
                   fp8                   : fp8s,
                   recompute_granularity : recomputes,
                   sequence_parallel     : seqpars]
    /\ pre_process \in pres
    /\ post_process \in posts
    /\ training \in trainings
    /\ cuda_graphs \in graphs
    /\ built = FALSE
    /\ layers = <<>>
    /\ xattn_layers = <<>>
    /\ xattn_and_dummy_layers = <<>>
    /\ fwd = NoForward

Init ==
    /\ InitWith(Schedules, Fp8Choices, RecomputeChoices, BOOLEAN, {TRUE}, {TRUE},
                BOOLEAN, CudaGraphChoices)
    /\ rope = NoRope
    /\ gemma = NoGemma /\ embed = NoEmbed /\ slm = NoSlm

\* CrossAttentionTextModel.__init__ / CrossAttentionTransformerBlock.__init__
Construct ==
    /\ ~built
    /\ LET acc == BuildXattnLayers(0, config.num_layers, config.fusion_schedule,
                                   [xl |-> <<>>, xd |-> <<>>])
       IN  /\ layers' = BuildLayers(config.num_layers)
           /\ xattn_layers' = acc.xl
           /\ xattn_and_dummy_layers' = acc.xd
           \* assert len(self.xattn_and_dummy_layers) == len(self.layers)
           /\ Len(acc.xd) = config.num_layers
    /\ built' = TRUE
    /\ UNCHANGED <<config, pre_process, post_process, training, cuda_graphs, fwd, rope,
                   gemma, embed, slm>>

\* an optimizer update of the gate parameters of the cross-attention layers,
\* between two forward calls
OptimizerStep ==
    /\ built
    /\ fwd.kind = "none"
    /\ Len(xattn_layers) > 0
    /\ \E ga \in GateVals, gf \in GateVals :
         xattn_layers' = [i \in 1..Len(xattn_layers) |->
                            [xattn_layers[i] EXCEPT !.gate_attn = ga, !.gate_ffn = gf]]
    /\ UNCHANGED <<config, pre_process, post_process, training, cuda_graphs,
                   built, layers, xattn_and_dummy_layers, fwd, rope,
                   gemma, embed, slm>>

\* a call of the decoder, CrossAttentionTransformerBlock.forward, from its
\* first statement to its return or to the exception that ends it; fwd keeps
\* the call until the caller has taken its result
BlockForwardCall ==
    /\ built
    /\ fwd.kind = "none"
    /\ \E s \in 1..MaxSeq, b \in BatchSizes, mask \in {0, 1}, bias_on \in BOOLEAN :
         LET env == Env(s, b, mask, bias_on)
             blk == BlockForward(HiddenStatesArg(env), env)
         IN  fwd' = ForwardRecord("block", env, FALSE, FALSE, FALSE, FALSE,
                                  HiddenStatesArg(env), blk, blk.outcome,
                                  IF blk.outcome = "ok" THEN "hidden" ELSE "none",
                                  NoneT, blk.value)
    /\ UNCHANGED <<config, pre_process, post_process, training, cuda_graphs,
                   built, layers, xattn_layers, xattn_and_dummy_layers, rope,
                   gemma, embed, slm>>

\* a call of CrossAttentionTextModel.forward, from its first statement to its
\* return or to the exception that ends it
TextForwardCall ==
    /\ built
    /\ fwd.kind = "none"
    /\ \E s \in 1..MaxSeq, b \in BatchSizes, di_given \in BOOLEAN, labels_given \in BOOLEAN :
         fwd' = TextModelForward(di_given, labels_given, Env(s, b, 1, FALSE))
    /\ UNCHANGED <<config, pre_process, post_process, training, cuda_graphs,
                   built, layers, xattn_layers, xattn_and_dummy_layers, rope,
                   gemma, embed, slm>>

\* the caller has taken the result of the forward call, or caught its
\* exception; the module is as the call found it
ForwardReturn ==
    /\ fwd.kind # "none"
    /\ fwd' = NoForward
    /\ UNCHANGED <<config, pre_process, post_process, training, cuda_graphs,
                   built, layers, xattn_layers, xattn_and_dummy_layers, rope,
                   gemma, embed, slm>>

Next == Construct \/ OptimizerStep \/ BlockForwardCall \/ ForwardReturn

Spec == Init /\ [][Next]_vars

\* the text model, on every pipeline stage, in evaluation mode
InitText ==
    /\ InitWith(Schedules, {"<None>", "e4m3"}, {"<None>"}, {FALSE}, BOOLEAN, BOOLEAN,
                {FALSE}, {<<>>})
    /\ rope = NoRope
    /\ gemma = NoGemma /\ embed = NoEmbed /\ slm = NoSlm

NextText == Construct \/ OptimizerStep \/ TextForwardCall \/ ForwardReturn

SpecText == InitText /\ [][NextText]_vars

\* the arguments of apply_rope_scaling explored: the wavelengths 1 / c of the
\* inverse frequencies, the scaling factor, and the pairs of low_freq_factor <
\* high_freq_factor

\* largest number of elements of inv_freq
MaxFreqs == 2

RopeWavelens == {1, 2, 3, 4, 6, 8, 16}

RopeFactors == {2, 8}

\* <<low_freq_factor, high_freq_factor>>
RopeBands == {<<1, 4>>, <<1, 2>>, <<2, 4>>}

RopeContextLens == {8}

RopeInvFreqs ==
    UNION {[1..n -> {<<1, w>> : w \in RopeWavelens}] : n \in 1..MaxFreqs}

\* a model that is about to rescale the inverse frequencies of its rotary
\* embedding
InitRope ==
    /\ InitWith({{}}, {"<None>"}, {"<None>"}, {FALSE}, {TRUE}, {TRUE}, {FALSE}, {<<>>})
    /\ \E inv_freq \in RopeInvFreqs, factor \in RopeFactors, band \in RopeBands,
          old_context_len \in RopeContextLens :
         rope = RopeRecord(FALSE, inv_freq, factor, band[1], band[2], old_context_len, <<>>)
    /\ gemma = NoGemma /\ embed = NoEmbed /\ slm = NoSlm

\* the call apply_rope_scaling(inv_freq, factor, low_freq_factor,
\* high_freq_factor, old_context_len)
ApplyRopeScalingCall ==
    /\ ~rope.called
    /\ Len(rope.inv_freq) > 0
    /\ rope' = [rope EXCEPT !.called = TRUE,
                            !.result = ApplyRopeScaling(rope.inv_freq, rope.factor,
                                          rope.low_freq_factor, rope.high_freq_factor,
                                          rope.old_context_len)]
    /\ UNCHANGED <<config, pre_process, post_process, training, cuda_graphs,
                   built, layers, xattn_layers, xattn_and_dummy_layers, fwd,
                   gemma, embed, slm>>

NextRope == ApplyRopeScalingCall

SpecRope == InitRope /\ [][NextRope]_vars

\* the decoder and the rotary embedding at rest, for the specifications of the
\* other modules
BlockIdle ==
    /\ InitWith({{}}, {"<None>"}, {"<None>"}, {FALSE}, {TRUE}, {TRUE}, {FALSE}, {<<>>})
    /\ rope = NoRope

\* the cuts explored: a custom field is absent or holds a text, the text of
\* the first supervision is None or a text; the fields of a MixedCut itself
\* hold texts of their own
PlainCutFields ==
    {CutFields(c, q, sp, <<"default">>, a) :
       c \in {Absent, <<"ctx", "NL", "more">>, <<"|message|">>},
       q \in {Absent, <<"question">>},
       sp \in {Absent, <<"sys">>},
       a \in {Absent, <<"answer">>}}

MixedCutFields ==
    {CutFields(c, q, sp, <<"mixed", "default">>, <<"mixed", "answer">>) :
       c \in {Absent, <<"mixed", "ctx">>},
       q \in {Absent, <<"mixed", "question">>},
       sp \in {Absent, <<"mixed", "sys">>}}

\* own of a plain cut is its fields and its first_non_padding_cut is not read
GemmaCuts ==
    {Cut(FALSE, f, f) : f \in PlainCutFields}
      \cup {Cut(TRUE, m, f) : m \in MixedCutFields, f \in PlainCutFields}

GemmaCutSets == UNION {[1..n -> GemmaCuts] : n \in 0..MaxCuts}

\* a CutSet is about to be handed to gemma1
InitGemma ==
    /\ BlockIdle
    /\ \E cuts \in GemmaCutSets : gemma = GemmaRecord(FALSE, cuts, Gemma1(<<>>))
    /\ embed = NoEmbed /\ slm = NoSlm

\* the call gemma1(cuts, tokenizer), to its return or to the exception that
\* ends it
Gemma1Call ==
    /\ ~gemma.called
    /\ gemma' = GemmaRecord(TRUE, gemma.cuts, Gemma1(gemma.cuts))
    /\ UNCHANGED <<config, pre_process, post_process, training, cuda_graphs,
                   built, layers, xattn_layers, xattn_and_dummy_layers, fwd, rope,
                   embed, slm>>

NextGemma == Gemma1Call

SpecGemma == InitGemma /\ [][NextGemma]_vars

\* the data_cfg.file_names and data_cfg.concat_sampling_probabilities explored
FileNamesChoices ==
    {CfgList("list", <<1>>), CfgList("str", <<>>)}
      \cup {CfgList("ListConfig", [k \in 1..n |-> k]) : n \in 0..MaxFiles}

SamplingChoices ==
    {CfgList("None", <<>>), CfgList("list", <<1>>)}
      \cup UNION {{CfgList("ListConfig", w) : w \in [1..n -> {1, 3}]} : n \in 0..MaxFiles}

MaxStepsChoices == {NoneInt} \cup {SomeInt(n) : n \in (0 - 1)..2}

\* a model and a data_cfg about to be handed to _build_dataset
InitEmbedBuild ==
    /\ BlockIdle
    /\ gemma = NoGemma /\ slm = NoSlm
    /\ \E file_names \in FileNamesChoices, csp \in SamplingChoices,
          max_steps \in MaxStepsChoices, is_train \in BOOLEAN,
          pet \in {"<None>", "rope"}, max_seq_length \in {2, 3} :
         embed = EmbedRecord("build", FALSE,
                   EmbeddingModel(Rat(1), 0, 0, "loss", max_steps, pet),
                   [data_cfg |-> [file_names |-> file_names,
                                  concat_sampling_probabilities |-> csp,
                                  max_seq_length |-> max_seq_length,
                                  global_batch_size |-> 2],
                    is_train |-> is_train],
                   <<>>)

\* the call _build_dataset(data_cfg, is_train), to its return or to the
\* exception that ends it
BuildDatasetCall ==
    /\ embed.op = "build" /\ ~embed.called
    /\ embed' = [embed EXCEPT !.called = TRUE,
                              !.result = BuildDataset(embed.model, embed.args.data_cfg,
                                                      embed.model.max_steps,
                                                      embed.args.is_train)]
    /\ UNCHANGED <<config, pre_process, post_process, training, cuda_graphs,
                   built, layers, xattn_layers, xattn_and_dummy_layers, fwd, rope,
                   gemma, slm>>

NextEmbedBuild == BuildDatasetCall

SpecEmbedBuild == InitEmbedBuild /\ [][NextEmbedBuild]_vars

\* the flags of the examples of a batch, and the outputs of a rank explored
FlagLists == {<<"missing">>, <<"True", "False">>, <<"False", "True", "True">>}

RankFlagLists == UNION {[1..n -> FlagLists] : n \in 0..2}

GatheredChoices ==
    UNION {{[r \in 1..w |-> RankOutput(r - 1, f[r])] : f \in [1..w -> RankFlagLists]} :
             w \in 1..MaxRanks}

\* the outputs of the ranks are about to be gathered on one of them
InitEmbedGather ==
    /\ BlockIdle
    /\ gemma = NoGemma /\ slm = NoSlm
    /\ \E gathered \in GatheredChoices, global_rank \in 0..1,
          val_metric_name \in {"loss", "accuracy"}, mode \in {"validation", "test"},
          write \in {"missing", "False", "True"},
          prefix \in {"<missing>", "<None>", "out"} :
         embed = EmbedRecord("gather", FALSE,
                   EmbeddingModel(Rat(1), 0, global_rank, val_metric_name, NoneInt, "<None>"),
                   [gathered_outputs |-> gathered,
                    data_cfg |-> [write_embeddings_to_file |-> write,
                                  output_file_path_prefix |-> prefix],
                    mode |-> mode, dataloader_idx |-> 0],
                   <<>>)

\* the call gather_and_maybe_write_predictions(output, data_cfg, mode,
\* dataloader_idx), to its return or to the exception that ends it
GatherCall ==
    /\ embed.op = "gather" /\ ~embed.called
    /\ embed' = [embed EXCEPT !.called = TRUE,
                              !.result = GatherAndMaybeWritePredictions(embed.model,
                                            embed.args.gathered_outputs, embed.args.data_cfg,
                                            embed.args.mode, embed.args.dataloader_idx)]
    /\ UNCHANGED <<config, pre_process, post_process, training, cuda_graphs,
                   built, layers, xattn_layers, xattn_and_dummy_layers, fwd, rope,
                   gemma, slm>>

NextEmbedGather == GatherCall

SpecEmbedGather == InitEmbedGather /\ [][NextEmbedGather]_vars

\* the (query, positive, negative) rows of a batch item explored
LossItems ==
    {<<<<1, 0>>, <<0, 2>>, <<3, 4>>>>,
     <<<<3, 4>>, <<3, 4>>, <<0, 0 - 2>>>>,
     <<<<0, 2>>, <<1, 0>>, <<1, 0>>>>}

LossTemperatures == {Rat(1), <<1, 2>>}

\* eos_tensors: the rows of the items, one item after the other
EosTensorChoices ==
    UNION {{Concat(items) : items \in [1..n -> LossItems]} : n \in 1..MaxBatch}

\* a model and the hidden states of a batch about to be handed to loss_func
InitEmbedLoss ==
    /\ BlockIdle
    /\ gemma = NoGemma /\ slm = NoSlm
    /\ \E eos_tensors \in EosTensorChoices, K \in 0..MaxSoftNegatives,
          temperature \in LossTemperatures :
         embed = EmbedRecord("loss", FALSE,
                   EmbeddingModel(temperature, K, 0, "loss", NoneInt, "<None>"),
                   [eos_tensors |-> eos_tensors], <<>>)

\* the call loss_func(loss_mask, num_valid_tokens_in_ub, output_tensor), to
\* its return or to the assertion that ends it; the multinomial draw is any of
\* the results it can give
LossFuncCall ==
    /\ embed.op = "loss" /\ ~embed.called
    /\ LET batch == Len(embed.args.eos_tensors) \div 3
           K     == embed.model.num_soft_negatives
       IN  \E soft_neg_samples \in
                (IF K > 0 /\ K < batch THEN SoftNegSamples(batch, K) ELSE {<<>>}) :
             embed' = [embed EXCEPT !.called = TRUE,
                                    !.result = LossFunc(embed.model, embed.args.eos_tensors,
                                                        soft_neg_samples)]
    /\ UNCHANGED <<config, pre_process, post_process, training, cuda_graphs,
                   built, layers, xattn_layers, xattn_and_dummy_layers, fwd, rope,
                   gemma, slm>>

NextEmbedLoss == LossFuncCall

SpecEmbedLoss == InitEmbedLoss /\ [][NextEmbedLoss]_vars

\* an entry point of slm/api.py is about to be called with a config
InitSlm ==
    /\ BlockIdle
    /\ gemma = NoGemma /\ embed = NoEmbed
    /\ \E entry \in {"train", "validate", "generate"},
          peft_cfg \in {"<missing>", "<None>", "{}", "lora"} :
         slm = SlmRecord(entry, peft_cfg, 0, "running", <<>>, "<unbound>", "<unbound>")

\* the step of number n makes its calls and hands over to step n + 1
SlmAdvance(n, calls) ==
    /\ slm.status = "running"
    /\ slm.pc = n
    /\ slm' = [slm EXCEPT !.pc = n + 1, !.log = slm.log \o calls]

SlmUnchanged ==
    UNCHANGED <<config, pre_process, post_process, training, cuda_graphs,
                built, layers, xattn_layers, xattn_and_dummy_layers, fwd, rope,
                gemma, embed>>

SlmStart == SlmAdvance(0, StartCalls) /\ SlmUnchanged

SlmBuildModel == SlmAdvance(1, BuildModelCalls) /\ SlmUnchanged

SlmBuildData == SlmAdvance(2, BuildDataCalls) /\ SlmUnchanged

SlmBuildOptim == SlmAdvance(3, BuildOptimCalls) /\ SlmUnchanged

SlmBuildTrainer == SlmAdvance(4, BuildTrainerCalls) /\ SlmUnchanged

\* "peft = None" and the conditional construction of the wrapper
SlmSetupPeft ==
    /\ slm.status = "running"
    /\ slm.pc = 5
    /\ slm' = [slm EXCEPT !.pc = 6,
                          !.log = slm.log \o SetupPeftCalls(slm.peft_cfg),
                          !.peft = PeftValue(slm.peft_cfg)]
    /\ SlmUnchanged

SlmSetupLogger == SlmAdvance(6, SetupLoggerCalls) /\ SlmUnchanged

\* step 7 and the return of the entry point
SlmRun ==
    /\ slm.status = "running"
    /\ slm.pc = 7
    /\ slm' = [slm EXCEPT !.pc = 8,
                          !.status = "returned",
                          !.log = slm.log \o RunCalls(slm.entry),
                          !.run_peft = slm.peft]
    /\ SlmUnchanged

\* a call of the step that is next raises: the entry point ends there
SlmRaise ==
    /\ slm.status = "running"
    /\ slm.pc \in 1..7
    /\ slm' = [slm EXCEPT !.status = "raised"]
    /\ SlmUnchanged

NextSlm ==
    \/ SlmStart \/ SlmBuildModel \/ SlmBuildData \/ SlmBuildOptim \/ SlmBuildTrainer
    \/ SlmSetupPeft \/ SlmSetupLogger \/ SlmRun \/ SlmRaise

SpecSlm == InitSlm /\ [][NextSlm]_vars

(* ------------------------------ claims --------------------------------- *)

\* the calls logged by the last forward
Log == fwd.block.log

\* the positions of the log at which a real cross-attention layer was called
XattnCalls == {k \in 1..Len(Log) : Log[k].callee = "xattn"}

\* a tensor of zeros
IsZero(t) == \A k \in 1..Len(t.data) : t.data[k] = 0

\* the layer indices of the pipeline rank
LayerIndices == 0..(config.num_layers - 1)

\* C1: after construction, entry i of xattn_and_dummy_layers is a real
\* cross-attention layer, built with layer_number i+1 and held by xattn_layers,
\* exactly when i is in the fusion schedule, and a dummy otherwise;
\* xattn_and_dummy_layers is as long as layers, and xattn_layers has one layer
\* per schedule index within the range of layer indices.
C1_FusionScheduleLayout ==
    built =>
      /\ Len(xattn_and_dummy_layers) = Len(layers)
      /\ Len(xattn_and_dummy_layers) = config.num_layers
      /\ Len(xattn_layers) = Cardinality(config.fusion_schedule \cap LayerIndices)
      /\ \A i \in LayerIndices :
           LET entry == xattn_and_dummy_layers[i + 1]
           IN  /\ entry.is_xattn <=> (i \in config.fusion_schedule)
               /\ entry.is_xattn =>
                    /\ entry.ref \in 1..Len(xattn_layers)
                    /\ xattn_layers[entry.ref].layer_number = i + 1
      /\ \A r \in 1..Len(xattn_layers) :
           \E i \in LayerIndices : /\ xattn_and_dummy_layers[i + 1].is_xattn
                                   /\ xattn_and_dummy_layers[i + 1].ref = r

\* C1 witness: a constructed block whose schedule names a layer index, skips
\* another and names an index outside the range
C1_Witness ==
    /\ built
    /\ \E i \in LayerIndices : i \in config.fusion_schedule
    /\ \E i \in LayerIndices : i \notin config.fusion_schedule
    /\ \E j \in config.fusion_schedule : j \notin LayerIndices

\* the text layers alone, in order, applied from layer index l_no on
RECURSIVE SelfAttnOnly(_, _)
SelfAttnOnly(l_no, hidden_states) ==
    IF l_no >= config.num_layers THEN hidden_states
    ELSE SelfAttnOnly(l_no + 1, SelfAttnLayer(l_no + 1, hidden_states))

\* a direct call of the decoder that reached the layer loop on the eager path
EagerRun ==
    /\ fwd.kind = "block"
    /\ EagerPath
    /\ fwd.block.fp8_format # "ValueError"
    /\ ~(config.recompute_granularity = "full" /\ training)

\* C2: on the eager path the layers run in ascending l_no; for each l_no the
\* cross-attention or dummy layer runs first, with xattn_caches[l_no], and the
\* text layer l_no is applied to its output; a dummy layer hands the hidden
\* states on unchanged, so with an empty fusion schedule the result is that of
\* the text layers alone, in order.
C2_EagerInterleaving ==
    EagerRun =>
      /\ Len(Log) = 2 * config.num_layers
      /\ \A l_no \in LayerIndices :
           LET x == Log[2 * l_no + 1]
               t == Log[2 * l_no + 2]
           IN  /\ x.l_no = l_no /\ x.callee \in {"xattn", "dummy"}
               /\ x.cache = XattnCaches(fwd.env)[l_no + 1]
               /\ t.l_no = l_no /\ t.callee = "self" /\ t.layer_number = l_no + 1
               /\ t.input = x.ret.first
               /\ (x.callee = "dummy") => (t.input = x.input)
      /\ (config.fusion_schedule \cap LayerIndices = {}) =>
           /\ fwd.block.outcome = "ok"
           /\ fwd.block.loop_out = SelfAttnOnly(0, fwd.block.input)

\* C3 (state part): a call of a cross-attention layer whose gates are both zero
\* returns its input as hidden states and None as context, and neither branch
\* adds anything to the residual stream
C3_ZeroGatesState ==
    \A k \in XattnCalls :
      (Log[k].gate_attn = 0 /\ Log[k].gate_ffn = 0) =>
        /\ Log[k].ret.first = Log[k].input
        /\ IsNone(Log[k].ret.second)
        /\ IsZero(Log[k].ret.attn_contrib)
        /\ IsZero(Log[k].ret.mlp_contrib)

\* C3: a freshly constructed cross-attention layer has gate_attn = gate_ffn = 0,
\* and with both gates at zero forward returns hidden states equal to its
\* input, for every mask and cache, with a context of None.
C3_ZeroGatesIdentity ==
    /\ [][Construct =>
            \A i \in 1..Len(xattn_layers') :
               xattn_layers'[i].gate_attn = 0 /\ xattn_layers'[i].gate_ffn = 0]_vars
    /\ []C3_ZeroGatesState

\* C3 witness: a layer with zero gates was called with an unmasked row and a
\* bias, so that both branches had a non-zero ungated output
C3_Witness ==
    \E k \in XattnCalls :
      /\ Log[k].gate_attn = 0 /\ Log[k].gate_ffn = 0
      /\ fwd.env.mask = 1 /\ fwd.env.bias_on
      /\ ~IsZero(Log[k].ret.attn_raw)
      /\ ~IsZero(Log[k].ret.mlp_raw)

\* C4: the MLP branch is scaled by tanh(gate_ffn) and the cross-attention
\* branch by tanh(gate_attn), each independently of the other gate.
C4_MlpScaledByGateFfn ==
    \A k \in XattnCalls :
      /\ Log[k].ret.attn_contrib = ScaleT(Tanh(Log[k].gate_attn), Log[k].ret.attn_raw)
      /\ Log[k].ret.mlp_contrib = ScaleT(Tanh(Log[k].gate_ffn), Log[k].ret.mlp_raw)

\* C5: the FP8 context follows config.fp8: a falsy value gives no FP8 autocast,
\* "e4m3" the format E4M3, "hybrid" the format HYBRID, and any other truthy
\* value raises ValueError before any layer is executed.
C5_Fp8Selection ==
    (fwd.kind = "block") =>
      /\ Falsy(config.fp8) =>
           /\ fwd.block.fp8_format = "nullcontext"
           /\ \A c \in 1..Len(fwd.block.entered) : fwd.block.entered[c] # "fp8_autocast"
      /\ (config.fp8 = "e4m3") => fwd.block.fp8_format = "E4M3"
      /\ (config.fp8 = "hybrid") => fwd.block.fp8_format = "HYBRID"
      /\ (config.fp8 \in {"e4m3", "hybrid"}) =>
           \E c \in 1..Len(fwd.block.entered) : fwd.block.entered[c] = "fp8_autocast"
      /\ (~Falsy(config.fp8) /\ config.fp8 \notin {"e4m3", "hybrid"}) =>
           /\ fwd.outcome = "ValueError"
           /\ Log = <<>>
           /\ fwd.block.entered = <<>>

\* C5 witness: a forward under an unsupported FP8 format raised ValueError
C5_Witness ==
    /\ fwd.kind = "block"
    /\ config.fp8 = "e5m2"
    /\ fwd.outcome = "ValueError"

\* the layer indices at which the loop of the last forward made a call
Started == {Log[k].l_no : k \in 1..Len(Log)}

\* the callees of the calls of index l_no, by path
Callees(l_no, path) ==
    {Log[k].callee : k \in {j \in 1..Len(Log) : Log[j].l_no = l_no /\ Log[j].path = path}}

\* C6: for each layer of the loop the CUDA-graph replay is taken exactly when
\* cuda_graphs is non-empty and the module is in training mode; otherwise both
\* the cross-attention (or dummy) layer and the text layer of that index are
\* called eagerly.
C6_ReplayIffGraphsAndTraining ==
    (fwd.kind = "block") =>
      \A l_no \in Started :
        IF Len(cuda_graphs) > 0 /\ training
          THEN Callees(l_no, "replay") = {"graph"} /\ Callees(l_no, "eager") = {}
          ELSE /\ Callees(l_no, "replay") = {}
               /\ "self" \in Callees(l_no, "eager")
               /\ Callees(l_no, "eager") \cap {"xattn", "dummy"} # {}

\* the low and high wavelength bounds of the last call of apply_rope_scaling
LowFreqWavelen == RDiv(Rat(rope.old_context_len), Rat(rope.low_freq_factor))

HighFreqWavelen == RDiv(Rat(rope.old_context_len), Rat(rope.high_freq_factor))

\* C7: apply_rope_scaling leaves an inverse frequency unchanged when its
\* wavelength is below high_freq_wavelen and returns inv_freq / factor when its
\* wavelength is above low_freq_wavelen, for each element on its own.
C7_RopeOuterBands ==
    rope.called =>
      /\ Len(rope.result) = Len(rope.inv_freq)
      /\ \A k \in 1..Len(rope.inv_freq) :
           LET c == rope.inv_freq[k]
               w == <<c[2], c[1]>>
           IN  /\ RLt(w, HighFreqWavelen) => rope.result[k] = c
               /\ RLt(LowFreqWavelen, w) =>
                    rope.result[k] = Norm(<<c[1], c[2] * rope.factor>>)

\* C7 witness: a call whose input holds a wavelength below high_freq_wavelen
\* and one above low_freq_wavelen
C7_Witness ==
    /\ rope.called
    /\ \E k \in 1..Len(rope.inv_freq) :
         RLt(<<rope.inv_freq[k][2], rope.inv_freq[k][1]>>, HighFreqWavelen)
    /\ \E k \in 1..Len(rope.inv_freq) :
         RLt(LowFreqWavelen, <<rope.inv_freq[k][2], rope.inv_freq[k][1]>>)

\* C8: for high_freq_wavelen <= wavelen <= low_freq_wavelen the result is
\* (1 - s) * inv_freq / factor + s * inv_freq with
\* s = (old_context_len / wavelen - low_freq_factor) / (high_freq_factor - low_freq_factor);
\* s is in [0, 1], the result is between inv_freq / factor and inv_freq, and it
\* is inv_freq at wavelen = high_freq_wavelen and inv_freq / factor at
\* wavelen = low_freq_wavelen.
C8_RopeMediumBand ==
    rope.called =>
      \A k \in 1..Len(rope.inv_freq) :
        LET c        == rope.inv_freq[k]
            w        == <<c[2], c[1]>>
            c_scaled == Norm(<<c[1], c[2] * rope.factor>>)
            \* s = (old_context_len * c - low_freq_factor) / (high - low)
            s == Norm(<<rope.old_context_len * c[1] - rope.low_freq_factor * c[2],
                        c[2] * (rope.high_freq_factor - rope.low_freq_factor)>>)
        IN  (RLe(HighFreqWavelen, w) /\ RLe(w, LowFreqWavelen)) =>
              /\ rope.result[k] = RAdd(RMul(RSub(Rat(1), s), c_scaled), RMul(s, c))
              /\ RLe(Rat(0), s) /\ RLe(s, Rat(1))
              /\ RLe(c_scaled, rope.result[k]) /\ RLe(rope.result[k], c)
              /\ (w = HighFreqWavelen) => rope.result[k] = c
              /\ (w = LowFreqWavelen) => rope.result[k] = c_scaled

\* C8 witness: a call whose input holds a wavelength strictly inside the medium
\* band and one on its upper edge
C8_Witness ==
    /\ rope.called
    /\ \E k \in 1..Len(rope.inv_freq) :
         LET w == <<rope.inv_freq[k][2], rope.inv_freq[k][1]>>
         IN  RLt(HighFreqWavelen, w) /\ RLt(w, LowFreqWavelen)
    /\ \E k \in 1..Len(rope.inv_freq) :
         <<rope.inv_freq[k][2], rope.inv_freq[k][1]>> = LowFreqWavelen

\* r is t with its first two dimensions exchanged
IsTransposeOf(r, t) ==
    /\ Len(t.shape) >= 2
    /\ r.shape = <<t.shape[2], t.shape[1]>> \o Tail(Tail(t.shape))
    /\ \A i \in 1..t.shape[1], j \in 1..t.shape[2] :
         Slice(Slice(r, j), i) = Slice(Slice(t, i), j)

\* C9: forward returns the decoder's hidden states when post_process is false;
\* otherwise the logits with dimensions 0 and 1 exchanged when labels is None,
\* and the language-model loss when labels are given; the output layer is not
\* evaluated on a stage without post_process.
C9_TextModelReturn ==
    (fwd.kind = "text") =>
      /\ (~post_process) => ~fwd.output_layer_called
      /\ (fwd.outcome = "ok") =>
           /\ (~post_process) => (fwd.ret_kind = "hidden" /\ fwd.ret = fwd.block.value)
           /\ post_process =>
                /\ fwd.output_layer_called
                /\ fwd.logits = OutputLayer(fwd.block.value)
           /\ (post_process /\ ~fwd.labels_given) =>
                (fwd.ret_kind = "logits" /\ IsTransposeOf(fwd.ret, fwd.logits))
           /\ (post_process /\ fwd.labels_given) =>
                /\ fwd.ret_kind = "loss"
                /\ fwd.ret = LanguageModelLoss(Labels(fwd.env), fwd.logits)

\* C9 witness: a post_process stage returned logits of shape [b, s, h], b # s,
\* for hidden states of shape [s, b, h]
C9_Witness ==
    /\ fwd.kind = "text" /\ fwd.outcome = "ok"
    /\ post_process /\ ~fwd.labels_given
    /\ fwd.env.s # fwd.env.b
    /\ fwd.block.value.shape = <<fwd.env.s, fwd.env.b, 1>>
    /\ fwd.ret.shape = <<fwd.env.b, fwd.env.s, 1>>

\* C10: a given decoder_input is used as it is and the embedding is not
\* called; without it the embedding of input_ids and position_ids is computed
\* on a pre_process stage only, and on any other stage the decoder is called
\* with hidden_states None and reads the block's input_tensor.
C10_DecoderInputSelection ==
    (fwd.kind = "text") =>
      /\ fwd.decoder_input_given =>
           (~fwd.embedding_called /\ fwd.decoder_arg = DecoderInputArg(fwd.env))
      /\ (~fwd.decoder_input_given /\ pre_process) =>
           /\ fwd.embedding_called
           /\ fwd.decoder_arg = Embedding(InputIds(fwd.env), PositionIds(fwd.env))
      /\ (~fwd.decoder_input_given /\ ~pre_process) =>
           /\ ~fwd.embedding_called
           /\ IsNone(fwd.decoder_arg)
           /\ fwd.block.input = InputTensor(fwd.env)
      /\ pre_process => fwd.block.input = fwd.decoder_arg

\* C10 witness: on a stage without pre_process and without decoder_input the
\* decoder ran its layers on input_tensor
C10_Witness ==
    /\ fwd.kind = "text"
    /\ ~fwd.decoder_input_given /\ ~pre_process
    /\ IsNone(fwd.decoder_arg)
    /\ Len(Log) > 0
    /\ Log[1].input = InputTensor(fwd.env)

\* the cuts of the last call of gemma1 that its loop reached
GemmaReached == 1..Len(gemma.run.turns)

\* C11: a user turn with message M is rendered as
\* "<start_of_turn>user\nM<end_of_turn>\n<start_of_turn>model\n" and an
\* assistant turn with message A as "A<end_of_turn>\n", so that a user turn
\* followed by an assistant turn gives the concatenation of the two; the
\* output role is "assistant" and each role has the single slot "message", a
\* text slot.
C11_GemmaTurnRendering ==
    /\ OUTPUT_ROLE = "assistant"
    /\ \A role \in DOMAIN TEMPLATE :
         /\ DOMAIN TEMPLATE[role].slots = {"message"}
         /\ TEMPLATE[role].slots.message = "Text"
    /\ \A k \in GemmaReached :
         LET turns == gemma.run.turns[k]
             d     == gemma.run.dialogs[k]
             M     == turns[1].slots.message
             user  == <<"<start_of_turn>", "user", "NL">> \o M
                        \o <<"<end_of_turn>", "NL", "<start_of_turn>", "model", "NL">>
         IN  (d.outcome = "ok") =>
               /\ turns[1].role = "user" /\ d.rendered[1] = user
               /\ (Len(turns) = 1) => Concat(d.rendered) = user
               /\ (Len(turns) = 2) =>
                    LET A == turns[2].slots.message
                    IN  /\ turns[2].role = "assistant"
                        /\ d.rendered[2] = A \o <<"<end_of_turn>", "NL">>
                        /\ Concat(d.rendered) = user \o A \o <<"<end_of_turn>", "NL">>

\* C11 witness: a user turn whose message has several pieces, followed by an
\* assistant turn, was rendered
C11_Witness ==
    /\ gemma.called
    /\ \E k \in GemmaReached :
         /\ gemma.run.dialogs[k].outcome = "ok"
         /\ Len(gemma.run.turns[k]) = 2
         /\ Len(gemma.run.turns[k][1].slots.message) > 1

\* C12: the context of a cut is its custom field "context" if it has one, else
\* "question" if it has one, else default_context; a MixedCut is replaced by
\* its first_non_padding_cut first, and the context, the system prompt and the
\* supervisions are read from the replacement.
C12_Gemma1ContextSource ==
    \A k \in GemmaReached :
      LET cut   == gemma.cuts[k]
          src   == IF cut.is_mixed THEN cut.first_non_padding_cut ELSE cut.own
          turns == gemma.run.turns[k]
      IN  /\ turns[1].slots.message =
               IF src.context # Absent THEN src.context
               ELSE IF src.question # Absent THEN src.question
               ELSE src.default_context
          /\ (turns[1].role = "system_and_user") <=> (src.system_prompt # Absent)
          /\ (turns[1].role = "user") <=> (src.system_prompt = Absent)
          /\ turns[1].slots.system = src.system_prompt
          /\ (Len(turns) = 2) <=> (src.answer # Absent)
          /\ (Len(turns) = 2) => turns[2].slots.message = src.answer

\* C12 witness: a MixedCut with a context of its own whose first non-padding
\* cut has a question and no context was given the question as its context
C12_Witness ==
    /\ gemma.called
    /\ \E k \in GemmaReached :
         /\ gemma.cuts[k].is_mixed
         /\ gemma.cuts[k].own.context # Absent
         /\ gemma.cuts[k].first_non_padding_cut.context = Absent
         /\ gemma.cuts[k].first_non_padding_cut.question # Absent
         /\ gemma.run.turns[k][1].slots.message = gemma.cuts[k].first_non_padding_cut.question

\* the call of _build_dataset raised ValueError and constructed no dataset
BuildRaised == embed.result.outcome = "ValueError" /\ embed.result.datasets = <<>>

\* C13: _build_dataset raises ValueError, with no GPTEmbeddingDataset
\* constructed, when file_names is not a ListConfig, and for training also when
\* concat_sampling_probabilities is None or not a ListConfig, when its length
\* differs from that of file_names, or when trainer.max_steps is None or <= 0;
\* without is_train the checks of concat_sampling_probabilities and max_steps
\* do not apply, and ValueError has no other cause.
C13_BuildDatasetValidation ==
    (embed.op = "build" /\ embed.called) =>
      LET file_names == embed.args.data_cfg.file_names
          csp        == embed.args.data_cfg.concat_sampling_probabilities
          max_steps  == embed.model.max_steps
          is_train   == embed.args.is_train
          bad_csp    == csp.kind # "ListConfig"
          bad_len    == Len(csp.items) # Len(file_names.items)
          bad_steps  == max_steps.is_none \/ max_steps.v <= 0
      IN  /\ (file_names.kind # "ListConfig") => BuildRaised
          /\ (is_train /\ bad_csp) => BuildRaised
          /\ (is_train /\ bad_len) => BuildRaised
          /\ (is_train /\ bad_steps) => BuildRaised
          /\ (~is_train /\ file_names.kind = "ListConfig") =>
               /\ embed.result.outcome = "ok"
               /\ Len(embed.result.datasets) = Len(file_names.items)
          /\ (embed.result.outcome = "ValueError") =>
               \/ file_names.kind # "ListConfig"
               \/ is_train /\ (bad_csp \/ bad_len \/ bad_steps)

\* C13 witness: a training call whose only fault is max_steps = 0 raised
C13_Witness ==
    /\ embed.op = "build" /\ embed.called
    /\ embed.args.is_train
    /\ embed.args.data_cfg.file_names.kind = "ListConfig"
    /\ Len(embed.args.data_cfg.file_names.items) = 2
    /\ embed.args.data_cfg.concat_sampling_probabilities.kind = "ListConfig"
    /\ Len(embed.args.data_cfg.concat_sampling_probabilities.items) = 2
    /\ ~embed.model.max_steps.is_none /\ embed.model.max_steps.v = 0
    /\ embed.result.outcome = "ValueError"

\* the examples of a batch, in the order of the batch
BatchExamples(batch) ==
    [i \in 1..Len(batch.metadata) |->
       [q_hs |-> batch.q_hs[i], d_hs |-> batch.d_hs[i], metadata |-> batch.metadata[i]]]

\* the gathered examples: by data-parallel rank, then batch, then position
GatheredExamples ==
    Concat([r \in 1..Len(embed.args.gathered_outputs) |->
              Concat([b \in 1..Len(embed.args.gathered_outputs[r]) |->
                        BatchExamples(embed.args.gathered_outputs[r][b])])])

\* an example without a truthy "__AUTOGENERATED__" flag
NotAutogenerated(e) == e.metadata.flag # "True"

\* C14: the deduplicated outputs returned are the gathered examples without a
\* truthy "__AUTOGENERATED__" flag, by rank, then batch, then position in the
\* batch; q_hs, d_hs and metadata are equally long and index k of each is the
\* same example; total_size counts all gathered examples, the skipped ones
\* included.
C14_DeduplicatedOutputs ==
    (embed.op = "gather" /\ embed.called /\ embed.result.returned) =>
      LET kept == SelectSeq(GatheredExamples, NotAutogenerated)
          out  == embed.result.dedup
      IN  /\ Len(out.q_hs) = Len(kept)
          /\ Len(out.d_hs) = Len(kept)
          /\ Len(out.metadata) = Len(kept)
          /\ \A k \in 1..Len(kept) :
               /\ out.q_hs[k] = kept[k].q_hs
               /\ out.d_hs[k] = kept[k].d_hs
               /\ out.metadata[k] = kept[k].metadata
               /\ out.metadata[k].id = out.q_hs[k]
               /\ out.d_hs[k] = 1000 + out.q_hs[k]
          /\ out.total_size = Len(GatheredExamples)

\* C14 witness: two ranks, one of them with two batches, with examples kept
\* and examples skipped
C14_Witness ==
    /\ embed.op = "gather" /\ embed.called /\ embed.result.returned
    /\ Len(embed.args.gathered_outputs) = 2
    /\ Len(embed.args.gathered_outputs[1]) = 2
    /\ Len(embed.args.gathered_outputs[2]) = 1
    /\ Len(embed.result.dedup.q_hs) >= 2
    /\ embed.result.dedup.total_size > Len(embed.result.dedup.q_hs)

\* for every query i of the last call of loss_func, in the order drawn, the
\* batch items whose positive documents serve as soft negatives
SoftNegativesOf(i) == embed.result.soft_neg_samples[i]

\* C15: with num_soft_negatives = K > 0 the call asserts K < batch size; the K
\* soft-negative logits of query i are the similarities, divided by the
\* temperature, of query i with the positive documents of K distinct other
\* batch items j # i.
C15_SoftNegativeLogits ==
    (embed.op = "loss" /\ embed.called /\ embed.model.num_soft_negatives > 0) =>
      LET K     == embed.model.num_soft_negatives
          batch == Len(embed.args.eos_tensors) \div 3
          r     == embed.result
      IN  IF ~(K < batch) THEN r.outcome = "AssertionError"
          ELSE /\ r.outcome = "ok"
               /\ \A i \in 0..(batch - 1) :
                    /\ \A k \in 1..K : SoftNegativesOf(i)[k] # i
                    /\ Cardinality({SoftNegativesOf(i)[k] : k \in 1..K}) = K
                    /\ \A k \in 1..K :
                         r.soft_neg_cs[i][k] =
                           RDiv(Dot(r.query_hs[i + 1], r.pos_doc_hs[SoftNegativesOf(i)[k] + 1]),
                                embed.model.temperature)

\* the metric name the last call of gather_and_maybe_write_predictions read
GatherMetric ==
    IF embed.args.mode = "validation" THEN embed.model.val_metric_name
    ELSE embed.model.test_metric_name

\* C16: embedding files are written only on global rank 0 and only when
\* write_embeddings_to_file is set; there a missing or None
\* output_file_path_prefix raises ValueError and nothing is written; on another
\* rank, or with the flag unset, nothing is written and no ValueError is
\* raised; a metric name other than "loss" fails the assertion on every rank,
\* before any write.
C16_WriteOnRankZero ==
    (embed.op = "gather" /\ embed.called) =>
      LET r       == embed.result
          rank0   == embed.model.global_rank = 0
          flag    == embed.args.data_cfg.write_embeddings_to_file = "True"
          prefix  == embed.args.data_cfg.output_file_path_prefix
          is_loss == GatherMetric = "loss"
      IN  /\ (r.files # <<>>) => (rank0 /\ flag /\ is_loss)
          /\ (rank0 /\ flag /\ is_loss /\ prefix \in {"<missing>", "<None>"}) =>
               (r.outcome = "ValueError" /\ r.files = <<>>)
          /\ (rank0 /\ flag /\ is_loss /\ prefix = "out" /\ r.dedup.q_hs # <<>>) =>
               /\ r.outcome = "ok"
               /\ Len(r.files) = 2
               /\ r.files[1].data = r.dedup.q_hs
               /\ r.files[2].data = r.dedup.d_hs
          /\ (~rank0 \/ ~flag) => (r.files = <<>> /\ r.outcome # "ValueError")
          /\ (~is_loss) => (r.outcome = "AssertionError" /\ r.files = <<>>)
          /\ is_loss => r.outcome # "AssertionError"

\* C16 witness: on rank 0, with the flag set and a prefix of None, the call
\* raised ValueError
C16_Witness ==
    /\ embed.op = "gather" /\ embed.called
    /\ embed.model.global_rank = 0
    /\ embed.args.data_cfg.write_embeddings_to_file = "True"
    /\ embed.args.data_cfg.output_file_path_prefix = "<None>"
    /\ embed.result.outcome = "ValueError"

\* the position of a call in the log of the entry point, 0 if it was not made
SlmPos(call) ==
    IF \E k \in 1..Len(slm.log) : slm.log[k] = call
      THEN CHOOSE k \in 1..Len(slm.log) : slm.log[k] = call
      ELSE 0

\* call a was made, once, before call b
SlmBefore(a, b) ==
    /\ SlmPos(a) > 0
    /\ SlmPos(a) < SlmPos(b)
    /\ Cardinality({k \in 1..Len(slm.log) : slm.log[k] = a}) = 1

\* the calls that mark the numbered steps, in the order of the numbers
SlmMilestones ==
    <<"typecheck.set_typecheck_enabled(False)", "AutoTokenizer", "SpeechToTextLLM",
      "AudioToTextDataModule", "Serialization.from_config_dict(optim)", "nl.Trainer",
      "Serialization.from_config_dict(resume)", "Serialization.from_config_dict(logger)">>

\* the call that runs the model, by entry point
SlmRunCall(entry) ==
    CASE entry = "train"    -> "llm.finetune"
      [] entry = "validate" -> "trainer.validate"
      [] entry = "generate" -> "trainer.predict"

\* C17: each entry point disables the typechecks, builds tokenizer and model,
\* the data module, the optimizer, the trainer, the PEFT wrapper (only when
\* cfg.model.peft is set, peft being None otherwise), resume and logger, in
\* this order, and only then runs exactly one of llm.finetune,
\* trainer.validate and trainer.predict; validate and generate call _setup
\* before the trainer call and hand the PEFT wrapper over as model_transform.
C17_EntryPointOrder ==
    (slm.entry # "none") =>
      /\ \A m \in 2..Len(SlmMilestones) :
           (SlmPos(SlmMilestones[m]) > 0) => SlmBefore(SlmMilestones[m - 1], SlmMilestones[m])
      /\ (SlmPos("SpeechToTextLLMPEFT") > 0) =>
           /\ slm.peft_cfg = "lora"
           /\ SlmBefore("nl.Trainer", "SpeechToTextLLMPEFT")
      /\ (SlmPos("Serialization.from_config_dict(resume)") > 0) =>
           /\ (slm.peft_cfg = "lora") =>
                (/\ slm.peft = "SpeechToTextLLMPEFT"
                 /\ SlmBefore("SpeechToTextLLMPEFT", "Serialization.from_config_dict(resume)"))
           /\ (slm.peft_cfg # "lora") =>
                (slm.peft = "<None>" /\ SlmPos("SpeechToTextLLMPEFT") = 0)
      /\ \A e \in {"train", "validate", "generate"} :
           (SlmPos(SlmRunCall(e)) > 0) =>
             /\ e = slm.entry
             /\ SlmBefore("Serialization.from_config_dict(logger)", SlmRunCall(e))
             /\ slm.run_peft = slm.peft
             /\ (e # "train") => /\ SlmBefore("_setup", SlmRunCall(e))
                                 /\ SlmBefore("Serialization.from_config_dict(logger)", "_setup")
      /\ (slm.status = "returned") =>
           Cardinality({k \in 1..Len(slm.log) :
                          slm.log[k] \in {"llm.finetune", "trainer.validate", "trainer.predict"}}) = 1

\* C17 witness: validate returned after it built the PEFT wrapper
C17_Witness ==
    /\ slm.entry = "validate"
    /\ slm.status = "returned"
    /\ slm.peft = "SpeechToTextLLMPEFT"
    /\ SlmPos("trainer.validate") > 0

\* the last forward of the decoder entered the context c
Entered(c) == \E k \in 1..Len(fwd.block.entered) : fwd.block.entered[k] = c

\* C18: while the layer loop runs both contexts of the with statement are
\* active: the forked CUDA RNG tracker context when config.sequence_parallel
\* is set and the FP8 autocast context when config.fp8 is set, each entered
\* before the first layer and left after the last.
C18_BothContextsActive ==
    (fwd.kind = "block" /\ Len(Log) > 0) =>
      /\ config.sequence_parallel => Entered("rng_tracker_fork")
      /\ (~Falsy(config.fp8)) => Entered("fp8_autocast")

====
